---- MODULE Spec2Model ----
(***************************************************************************)
(* Model of rvl, a CSV numeric-diff tool: the comparison pipeline          *)
(* (orchestrator.rs), the diff engine (diff/*.rs), key discovery and the   *)
(* shuffle guard (alignment/*.rs), column typing (numeric/columns.rs) and  *)
(* the process exit plumbing (lib.rs, main.rs).                            *)
(*                                                                         *)
(* f64 is modelled by a reduced binary floating-point format: Prec         *)
(* significand bits, round-to-nearest-even, gradual underflow, overflow to *)
(* infinity.  A value is an integer count of units (the spacing of the     *)
(* smallest numbers); One units make 1.0.                                  *)
(***************************************************************************)
EXTENDS Integers, Sequences, FiniteSets, TLC

\* ------------------------------------------------------------------ bounds

\* Significand bits of the reduced float format (53 in f64).
Prec == 3

\* Exponent of the largest finite values: MaxFinite = (2^Prec - 1) * 2^MaxExp.
MaxExp == 4

\* Most cells the diff engine is fed in DiffSpec.
MaxCells == 4

\* Most data rows of a file in Spec.
MaxRows == 2

\* Capacity of the top-K heap (heap.rs:7 sets 25; scaled down so that the
\* overflow of the heap is reached within MaxCells cells).
MAX_CONTRIBUTORS == 3

\* Most keys a KeySetMismatch samples per side (key_join.rs:160 sets 10;
\* scaled down so that truncate_samples cuts within the keys of JoinSpec).
MAX_SAMPLES == 2

\* Most aligned rows column typing is fed in TypingSpec.
MaxTypedRows == 3
MaxPassRows == 2

\* Most bytes of a --key text behind its prefix in KeySpec.
MaxKeyLen == 2

\* Most data lines of a file in RecordSpec.
MaxRecordLines == 3

\* Longest line of a file in DialectSpec.
MaxLineLen == 2

\* NUL_SCAN_LIMIT of csv/input.rs, 8 * 1024 there; scaled down so that
\* inputs reach beyond it.
NUL_SCAN_LIMIT == 4
MaxQuotedLen == 5

\* Longest run of free bytes in an identifier of IdentSpec.
MaxIdentLen == 2
MaxNameLen == 3

\* Most header fields of a file in HeaderSpec.
MaxHeaders == 3

\* ------------------------------------------------------- reduced f64 model

RECURSIVE Pow2(_)
Pow2(n) == IF n = 0 THEN 1 ELSE 2 * Pow2(n - 1)

\* 1.0, in units.
One == Pow2(Prec)

\* f64::MAX of the reduced format.
MaxFinite == (Pow2(Prec) - 1) * Pow2(MaxExp)

\* +infinity: above every finite value and every exact finite sum.
Inf == 4 * Pow2(Prec) * Pow2(MaxExp)

IsFinite(x) == x # Inf /\ x # -Inf

FAbs(x) == IF x < 0 THEN -x ELSE x

RECURSIVE ScaleOf(_, _, _)
\* The spacing of the representable numbers around n/d: the least power of
\* two s with n/d < 2^Prec * s.
ScaleOf(n, d, s) == IF n < d * Pow2(Prec) * s THEN s ELSE ScaleOf(n, d, 2 * s)

\* n/d (n >= 0, d > 0) rounded to the nearest representable number, ties to
\* the even significand.
RoundRat(n, d) ==
    LET s == ScaleOf(n, d, 1)
        q == n \div (d * s)
        r == n - q * d * s
        up == (2 * r > d * s) \/ (2 * r = d * s /\ q % 2 = 1)
    IN  (IF up THEN q + 1 ELSE q) * s

\* A rounded magnitude above MaxFinite is infinite.
Ovf(x) == IF x > MaxFinite THEN Inf ELSE x

\* a + b for a, b >= 0.
FAdd(a, b) == IF a = Inf \/ b = Inf THEN Inf ELSE Ovf(RoundRat(a + b, 1))

\* a - b for finite a, b.
FSub(a, b) ==
    LET e == a - b
    IN  IF e >= 0 THEN Ovf(RoundRat(e, 1)) ELSE -Ovf(RoundRat(-e, 1))

\* a / b for a >= 0 and finite b > 0.
FDiv(a, b) == IF a = Inf THEN Inf ELSE Ovf(RoundRat(a * One, b))

\* ------------------------------------------------------------ byte strings

\* Header names and cell texts of the model's inputs, as byte strings.
B_id == <<105, 100>>
B_v == <<118>>
B_k1 == <<107, 49>>
B_k2 == <<107, 50>>
B_k3 == <<107, 51>>
B_a == <<97>>
B_b == <<98>>
B_c == <<99>>
B_d == <<100>>
B_sp_a == <<32, 97>>
B_x == <<120>>
B_empty == <<>>
B_0 == <<48>>
B_1 == <<49>>
B_1e308 == <<49, 101, 51, 48, 56>>
B_neg1e308 == <<45, 49, 101, 51, 48, 56>>

RECURSIVE BytesLess(_, _)
\* Vec<u8> ordering: lexicographic, a proper prefix first.
BytesLess(l, r) ==
    IF r = <<>> THEN FALSE
    ELSE IF l = <<>> THEN TRUE
    ELSE IF Head(l) # Head(r) THEN Head(l) < Head(r)
    ELSE BytesLess(Tail(l), Tail(r))

\* ----------------------------------------------------- normalize/trim.rs

is_ascii_blank(b) == b = 32 \/ b = 9

RECURSIVE TrimStart(_)
TrimStart(input) ==
    IF input # <<>> /\ is_ascii_blank(Head(input))
    THEN TrimStart(Tail(input)) ELSE input

RECURSIVE TrimEnd(_)
TrimEnd(input) ==
    IF input # <<>> /\ is_ascii_blank(input[Len(input)])
    THEN TrimEnd(SubSeq(input, 1, Len(input) - 1)) ELSE input

ascii_trim(input) == TrimEnd(TrimStart(input))

\* ------------------------------------------------------ numeric/missing.rs

ToAsciiUpper(b) == IF b >= 97 /\ b <= 122 THEN b - 32 ELSE b

ascii_eq_ignore_case(a, b) ==
    /\ Len(a) = Len(b)
    /\ \A i \in 1..Len(a) : ToAsciiUpper(a[i]) = ToAsciiUpper(b[i])

is_missing_token(input) ==
    LET trimmed == ascii_trim(input)
    IN  \/ trimmed = <<>>
        \/ trimmed = <<45>>
        \/ ascii_eq_ignore_case(trimmed, <<78, 65>>)
        \/ ascii_eq_ignore_case(trimmed, <<78, 47, 65>>)
        \/ ascii_eq_ignore_case(trimmed, <<78, 85, 76, 76>>)
        \/ ascii_eq_ignore_case(trimmed, <<78, 65, 78>>)
        \/ ascii_eq_ignore_case(trimmed, <<78, 79, 78, 69>>)

\* -------------------------------------------------------- numeric/parse.rs

\* parse_numeric on the texts the model's inputs use: the trimmed texts it
\* accepts, with their values ("1e308" stands for a value of the magnitude
\* of f64::MAX); every other text of the inputs is rejected.
NumericTexts == {B_0, B_1, B_1e308, B_neg1e308}

NumericValue(trimmed) ==
    CASE trimmed = B_0 -> 0
      [] trimmed = B_1 -> One
      [] trimmed = B_1e308 -> MaxFinite
      [] trimmed = B_neg1e308 -> -MaxFinite

parse_numeric(input) ==
    LET trimmed == ascii_trim(input)
    IN  IF trimmed \in NumericTexts
        THEN [some |-> TRUE, value |-> NumericValue(trimmed)]
        ELSE [some |-> FALSE, value |-> 0]

\* ------------------------------------------------ alignment/key_discovery.rs

\* KeyRow::field / FieldAccess::field: a field past the end reads as empty.
Field(row, index) == IF index >= 1 /\ index <= Len(row) THEN row[index] ELSE <<>>

\* Iterator::position, 1-based; 0 when absent.
Position(headers, name) ==
    IF \E i \in 1..Len(headers) : headers[i] = name
    THEN CHOOSE i \in 1..Len(headers) :
             headers[i] = name /\ \A j \in 1..(i - 1) : headers[j] # name
    ELSE 0

RECURSIVE ColumnStats(_, _, _)
\* ColumnStats::observe over the first n rows of a column.
ColumnStats(rows, index, n) ==
    IF n = 0 THEN [values |-> {}, has_empty |-> FALSE, has_dup |-> FALSE]
    ELSE LET stats == ColumnStats(rows, index, n - 1)
             trimmed == ascii_trim(Field(rows[n], index))
         IN  IF trimmed = <<>> THEN [stats EXCEPT !.has_empty = TRUE]
             ELSE IF trimmed \in stats.values
             THEN [stats EXCEPT !.has_dup = TRUE]
             ELSE [stats EXCEPT !.values = stats.values \cup {trimmed}]

is_joinable(stats) == ~stats.has_empty /\ ~stats.has_dup

\* The end of discover_key_candidates: the perfect candidates, then the
\* joinable ones.
RankCandidates(perfect, joinable) ==
    [i \in 1..Len(perfect) |->
        [name |-> perfect[i].name, old_index |-> perfect[i].old_index,
         new_index |-> perfect[i].new_index, kind |-> "Perfect"]]
    \o [i \in 1..Len(joinable) |->
        [name |-> joinable[i].name, old_index |-> joinable[i].old_index,
         new_index |-> joinable[i].new_index, kind |-> "Joinable"]]

\* The classification of discover_key_candidates, on the columns found in
\* both headers with their statistics.
Classify(candidates) ==
    RankCandidates(
        SelectSeq(candidates,
                  LAMBDA w : /\ is_joinable(w.old_stats)
                             /\ is_joinable(w.new_stats)
                             /\ w.old_stats.values = w.new_stats.values),
        SelectSeq(candidates,
                  LAMBDA w : /\ is_joinable(w.old_stats)
                             /\ is_joinable(w.new_stats)
                             /\ w.old_stats.values # w.new_stats.values))

discover_key_candidates(old_headers, new_headers, old_rows, new_rows) ==
    Classify(
        SelectSeq(
            [i \in 1..Len(old_headers) |->
                [name |-> old_headers[i],
                 old_index |-> i,
                 new_index |-> Position(new_headers, old_headers[i]),
                 old_stats |-> ColumnStats(old_rows, i, Len(old_rows)),
                 new_stats |-> ColumnStats(new_rows,
                                   Position(new_headers, old_headers[i]),
                                   Len(new_rows))]],
            LAMBDA w : w.new_index # 0))

\* ------------------------------------------------------ alignment/shuffle.rs

candidate_names(candidates, limit) ==
    [i \in 1..(IF Len(candidates) < limit THEN Len(candidates) ELSE limit) |->
        candidates[i].name]

key_sequence(rows, index) ==
    [i \in 1..Len(rows) |-> ascii_trim(Field(rows[i], index))]

\* A guard that compares the key values as sets, and so never sees a
\* reordering of a perfect candidate.
key_values_differ(candidate, old_rows, new_rows) ==
    {key_sequence(old_rows, candidate.old_index)[i] : i \in 1..Len(old_rows)}
        # {key_sequence(new_rows, candidate.new_index)[i] :
               i \in 1..Len(new_rows)}

has_reorder(candidate, old_rows, new_rows) ==
    key_sequence(old_rows, candidate.old_index)
        # key_sequence(new_rows, candidate.new_index)

\* detect_shuffle on the discovered candidates.
ShuffleOf(candidates, old_rows, new_rows) ==
    [reordered |->
        \E i \in 1..Len(candidates) :
            /\ candidates[i].kind = "Perfect"
            /\ has_reorder(candidates[i], old_rows, new_rows),
     suggested_keys |-> candidate_names(candidates, 3)]

detect_shuffle(old_headers, new_headers, old_rows, new_rows) ==
    ShuffleOf(discover_key_candidates(old_headers, new_headers,
                                      old_rows, new_rows),
              old_rows, new_rows)

\* ------------------------------------------------------ alignment/key_join.rs

is_blank_owned_record(record) ==
    \A i \in 1..Len(record) : ascii_trim(record[i]) = <<>>

NoKeyJoinError ==
    [kind |-> "", record_number |-> 0, key |-> <<>>, missing_count |-> 0,
     extra_count |-> 0, missing_samples |-> <<>>, extra_samples |-> <<>>]

RECURSIVE build_key_map(_, _, _)
\* build_key_map over the first n records: the error met first, if any, and
\* the HashMap from trimmed key to KeyEntry.
build_key_map(records, key_index, n) ==
    IF n = 0 THEN [err |-> NoKeyJoinError, entries |-> <<>>]
    ELSE LET before == build_key_map(records, key_index, n - 1)
             key == ascii_trim(Field(records[n], key_index))
         IN  IF before.err.kind # "" \/ is_blank_owned_record(records[n])
             THEN before
             ELSE IF key = <<>>
             THEN [before EXCEPT !.err =
                      [NoKeyJoinError EXCEPT !.kind = "EmptyKey",
                                             !.record_number = n]]
             ELSE IF key \in DOMAIN before.entries
             THEN [before EXCEPT !.err =
                      [NoKeyJoinError EXCEPT !.kind = "DuplicateKey",
                                             !.record_number = n,
                                             !.key = key]]
             ELSE [before EXCEPT !.entries =
                      [k \in DOMAIN before.entries \cup {key} |->
                          IF k = key
                          THEN [record_number |-> n, fields |-> records[n]]
                          ELSE before.entries[k]]]

\* The orders HashMap::keys may yield the keys of a map in.
KeyOrders(entries) ==
    {v \in [1..Cardinality(DOMAIN entries) -> DOMAIN entries] :
        \A i, j \in 1..Cardinality(DOMAIN entries) : i # j => v[i] # v[j]}

RECURSIVE InsertBytes(_, _)
InsertBytes(x, s) ==
    IF s = <<>> THEN <<x>>
    ELSE IF BytesLess(x, Head(s)) THEN <<x>> \o s
    ELSE <<Head(s)>> \o InsertBytes(x, Tail(s))

RECURSIVE SortBytes(_)
\* Vec<Vec<u8>>::sort.
SortBytes(keys) ==
    IF keys = <<>> THEN <<>>
    ELSE InsertBytes(keys[Len(keys)], SortBytes(SubSeq(keys, 1, Len(keys) - 1)))

truncate_samples(samples) ==
    IF Len(samples) > MAX_SAMPLES THEN SubSeq(samples, 1, MAX_SAMPLES)
    ELSE samples

\* The result of compare_key_sets from the keys it collected.
KeySetMismatch(missing, extra) ==
    IF missing = <<>> /\ extra = <<>> THEN NoKeyJoinError
    ELSE [NoKeyJoinError EXCEPT
             !.kind = "KeySetMismatch",
             !.missing_count = Len(missing),
             !.extra_count = Len(extra),
             !.missing_samples = truncate_samples(SortBytes(missing)),
             !.extra_samples = truncate_samples(SortBytes(extra))]

\* A comparison that only looks for the keys of old that new lacks.
compare_missing_only(old_entries, new_entries, old_order, new_order) ==
    KeySetMismatch(
        SelectSeq(old_order, LAMBDA k : k \notin DOMAIN new_entries), <<>>)

\* compare_key_sets, iterating the two maps in the given key orders.
compare_key_sets(old_entries, new_entries, old_order, new_order) ==
    KeySetMismatch(
        SelectSeq(old_order, LAMBDA k : k \notin DOMAIN new_entries),
        SelectSeq(new_order, LAMBDA k : k \notin DOMAIN old_entries))

\* The end of join_key_maps: the error of compare_key_sets, or the rows in
\* the order of the sorted keys.
JoinSorted(mismatch, keys, old_entries, new_entries) ==
    IF mismatch.kind # "" THEN [err |-> mismatch, aligned |-> <<>>]
    ELSE [err |-> NoKeyJoinError,
          aligned |-> [i \in 1..Len(keys) |->
                          [key |-> keys[i],
                           old |-> old_entries[keys[i]],
                           new |-> new_entries[keys[i]]]]]

\* join_key_maps, iterating the maps in the given key orders.
join_key_maps(old_entries, new_entries, old_order, new_order) ==
    JoinSorted(compare_key_sets(old_entries, new_entries,
                                old_order, new_order),
               SortBytes(old_order), old_entries, new_entries)

\* ------------------------------------------------------ numeric/columns.rs

\* HashMap::insert over the headers: the last index of a name; 0 when absent.
LastPosition(headers, name) ==
    IF \E i \in 1..Len(headers) : headers[i] = name
    THEN CHOOSE i \in 1..Len(headers) :
             headers[i] = name /\ \A j \in (i + 1)..Len(headers) : headers[j] # name
    ELSE 0

\* intersect_headers; key is <<>> when there is none.
intersect_headers(old_headers, new_headers, key) ==
    LET old_idx == SelectSeq([i \in 1..Len(old_headers) |-> i],
                             LAMBDA i : old_headers[i] # key)
        new_idx == SelectSeq([i \in 1..Len(new_headers) |-> i],
                             LAMBDA i : new_headers[i] # key)
        InNew(name) == name # key /\ LastPosition(new_headers, name) # 0
        InOld(name) == name # key /\ Position(old_headers, name) # 0
        common_idx == SelectSeq(old_idx, LAMBDA i : InNew(old_headers[i]))
        old_only_idx == SelectSeq(old_idx, LAMBDA i : ~InNew(old_headers[i]))
        new_only_idx == SelectSeq(new_idx, LAMBDA i : ~InOld(new_headers[i]))
    IN  [common |-> [c \in 1..Len(common_idx) |->
                        [name |-> old_headers[common_idx[c]],
                         old_index |-> common_idx[c],
                         new_index |-> LastPosition(new_headers,
                                           old_headers[common_idx[c]])]],
         old_only |-> [c \in 1..Len(old_only_idx) |->
                          old_headers[old_only_idx[c]]],
         new_only |-> [c \in 1..Len(new_only_idx) |->
                          new_headers[new_only_idx[c]]]]

NoNonNumeric == [set |-> FALSE, row |-> 0, side |-> "", value |-> <<>>]

NoTypingError ==
    [kind |-> "", row |-> 0, column |-> <<>>, side |-> "", value |-> <<>>]

\* A ColumnState that keeps the last non-numeric it is shown.
record_last_non_numeric(state, row, side, value) ==
    [state EXCEPT !.first_non_numeric =
        [set |-> TRUE, row |-> row, side |-> side, value |-> value]]

\* A ColumnState that records no non-numeric.
forget_non_numeric(state, row, side, value) == state

\* ColumnState::record_non_numeric.
record_non_numeric(state, row, side, value) ==
    IF state.first_non_numeric.set THEN state
    ELSE [state EXCEPT !.first_non_numeric =
             [set |-> TRUE, row |-> row, side |-> side, value |-> value]]

\* The body of the loops of detect_numeric_columns for one row and one
\* column: the column's next state, or the error returned.
TypeCell(state, column, row, old, new) ==
    LET old_raw == Field(old, column.old_index)
        new_raw == Field(new, column.new_index)
        old_missing == is_missing_token(old_raw)
        new_missing == is_missing_token(new_raw)
        present_raw == IF old_missing THEN new_raw ELSE old_raw
        present_side == IF old_missing THEN "New" ELSE "Old"
        missing_side == IF old_missing THEN "Old" ELSE "New"
        old_num == parse_numeric(old_raw).some
        new_num == parse_numeric(new_raw).some
        Mixed(r, side, value) ==
            [err |-> [kind |-> "MixedTypes", row |-> r,
                      column |-> column.name, side |-> side, value |-> value],
             state |-> state]
        Ok(st) == [err |-> NoTypingError, state |-> st]
    IN  IF old_missing /\ new_missing THEN Ok(state)
        ELSE IF old_missing \/ new_missing
        THEN IF parse_numeric(present_raw).some
             THEN [err |-> [kind |-> "Missingness", row |-> row,
                            column |-> column.name, side |-> missing_side,
                            value |-> present_raw],
                   state |-> state]
             ELSE IF state.saw_numeric
             THEN Mixed(row, present_side, present_raw)
             ELSE Ok(record_non_numeric(state, row, present_side, present_raw))
        ELSE IF old_num /\ new_num
        THEN IF state.first_non_numeric.set
             THEN Mixed(state.first_non_numeric.row,
                        state.first_non_numeric.side,
                        state.first_non_numeric.value)
             ELSE Ok([state EXCEPT !.saw_numeric = TRUE])
        ELSE IF old_num \/ new_num
        THEN IF state.saw_numeric
             THEN Mixed(row, IF old_num THEN "New" ELSE "Old",
                        IF old_num THEN new_raw ELSE old_raw)
             ELSE Ok(record_non_numeric(state, row,
                        IF old_num THEN "New" ELSE "Old",
                        IF old_num THEN new_raw ELSE old_raw))
        ELSE IF state.saw_numeric THEN Mixed(row, "Old", old_raw)
        ELSE Ok(record_non_numeric(state, row, "Old", old_raw))

RECURSIVE TypeCells(_, _, _)
\* detect_numeric_columns over the first n (row, column) pairs, row-major:
\* the error returned, if any, and the column states.
TypeCells(columns, rows, n) ==
    IF n = 0
    THEN [err |-> NoTypingError,
          states |-> [c \in 1..Len(columns) |->
                         [saw_numeric |-> FALSE,
                          first_non_numeric |-> NoNonNumeric]]]
    ELSE LET before == TypeCells(columns, rows, n - 1)
             r == ((n - 1) \div Len(columns)) + 1
             c == ((n - 1) % Len(columns)) + 1
             step == TypeCell(before.states[c], columns[c], r,
                              rows[r].old, rows[r].new)
         IN  IF before.err.kind # "" THEN before
             ELSE [err |-> step.err,
                   states |-> [before.states EXCEPT ![c] = step.state]]

\* The end of detect_numeric_columns: the error, or the columns that saw
\* a numeric value.
NumericOf(columns, typed) ==
    [err |-> typed.err,
     numeric |-> IF typed.err.kind # "" THEN <<>>
                 ELSE SelectSeq(columns,
                          LAMBDA column :
                              \E c \in 1..Len(columns) :
                                  /\ columns[c] = column
                                  /\ typed.states[c].saw_numeric)]

detect_numeric_columns(columns, rows) ==
    NumericOf(columns, TypeCells(columns, rows, Len(rows) * Len(columns)))

\* ------------------------------------------------------- diff/order.rs

RowIndex(i) == [kind |-> "row_index", index |-> i, key |-> <<>>]
Key(bytes) == [kind |-> "key", index |-> 0, key |-> bytes]

RowIdLess(l, r) ==
    IF l.kind = "row_index" /\ r.kind = "row_index" THEN l.index < r.index
    ELSE IF l.kind = "key" /\ r.kind = "key" THEN BytesLess(l.key, r.key)
    ELSE l.kind = "row_index" /\ r.kind = "key"

CellId(row_id, column) == [row_id |-> row_id, column |-> column]

\* A cell order that looks at the row id alone.
RowIdOnlyLess(l, r) == RowIdLess(l.row_id, r.row_id)

CellIdLess(l, r) ==
    IF l.row_id # r.row_id THEN RowIdLess(l.row_id, r.row_id)
    ELSE BytesLess(l.column, r.column)

\* The comparator of sort_contributors, as "left sorts before right".
ContributorBefore(left, right) ==
    IF right.contribution # left.contribution
    THEN right.contribution < left.contribution
    ELSE CellIdLess(left.id, right.id)

\* The retained contributors left in the order the heap returned them.
as_extracted(items) == items

RECURSIVE InsertContributor(_, _)
InsertContributor(x, s) ==
    IF s = <<>> THEN <<x>>
    ELSE IF ContributorBefore(x, Head(s)) THEN <<x>> \o s
    ELSE <<Head(s)>> \o InsertContributor(x, Tail(s))

RECURSIVE sort_contributors(_)
\* slice::sort_by (stable) under ContributorBefore.
sort_contributors(items) ==
    IF items = <<>> THEN <<>>
    ELSE InsertContributor(items[Len(items)],
                           sort_contributors(SubSeq(items, 1, Len(items) - 1)))

\* ---------------------------------------------------- diff/tolerance.rs

\* A tracker that takes the new value for the delta.
apply_to_new_value(tolerance, old_val, new_val) ==
    [delta |-> new_val,
     abs |-> FAbs(new_val),
     contribution |-> IF FAbs(new_val) <= tolerance THEN 0 ELSE FAbs(new_val)]

\* A tracker that zeroes a contribution only below the tolerance.
apply_below_tolerance(tolerance, old_val, new_val) ==
    [delta |-> FSub(new_val, old_val),
     abs |-> FAbs(FSub(new_val, old_val)),
     contribution |-> IF FAbs(FSub(new_val, old_val)) < tolerance THEN 0
                      ELSE FAbs(FSub(new_val, old_val))]

\* ToleranceTracker::apply: (delta, contribution); abs is |delta|.
apply(tolerance, old_val, new_val) ==
    LET delta == FSub(new_val, old_val)
        abs == FAbs(delta)
    IN  [delta |-> delta,
         abs |-> abs,
         contribution |-> IF abs <= tolerance THEN 0 ELSE abs]

\* --------------------------------------------------------- diff/heap.rs

Contributor(id, delta, contribution, tie_break) ==
    [id |-> id, delta |-> delta, contribution |-> contribution,
     tie_break |-> tie_break]

\* A comparison that puts the earlier tie_break first among equals.
HeapItemLessEarlierFirst(a, b) ==
    \/ a.contribution < b.contribution
    \/ a.contribution = b.contribution /\ a.tie_break < b.tie_break

\* HeapItem::cmp = Less: by contribution, then the later tie_break first.
HeapItemLess(a, b) ==
    \/ a.contribution < b.contribution
    \/ a.contribution = b.contribution /\ b.tie_break < a.tie_break

\* What BinaryHeap<Reverse<HeapItem>>::pop removes: the least HeapItem.
HeapMin(heap) == CHOOSE x \in heap : \A y \in heap \ {x} : HeapItemLess(x, y)

\* TopContributors::push.
push(heap, contributor) ==
    IF MAX_CONTRIBUTORS = 0 THEN heap
    ELSE LET pushed == heap \cup {contributor}
         IN  IF Cardinality(pushed) > MAX_CONTRIBUTORS
             THEN pushed \ {HeapMin(pushed)}
             ELSE pushed

\* DiffAccumulator::with_default_max, with TieBreaker::default and the
\* numeric_cells_changed counter of run_diff.
NewAccumulator ==
    [total_change |-> 0, max_abs_delta |-> 0, top |-> {}, next_tie |-> 0,
     numeric_cells_changed |-> 0, panicked |-> FALSE]

\* The debug_assert!s of DiffAccumulator::observe fail (debug builds only).
ObserveAsserts(build, delta, contribution) ==
    build = "debug" /\ (~IsFinite(delta) \/ ~IsFinite(contribution))

\* One cell of the diff pass: ToleranceTracker::apply, the changed-cell
\* counter, TieBreaker::next_value and DiffAccumulator::observe.
ObserveCell(acc, build, tolerance, cell) ==
    LET r == apply(tolerance, cell.old, cell.new)
    IN  IF acc.panicked THEN acc
        ELSE IF ObserveAsserts(build, r.delta, r.contribution)
        THEN [acc EXCEPT !.panicked = TRUE]
        ELSE [total_change |-> FAdd(acc.total_change, r.contribution),
              max_abs_delta |-> IF r.abs > acc.max_abs_delta
                                THEN r.abs ELSE acc.max_abs_delta,
              top |-> IF r.contribution > 0
                      THEN push(acc.top, Contributor(cell.id, r.delta,
                                          r.contribution, acc.next_tie))
                      ELSE acc.top,
              next_tie |-> acc.next_tie + 1,
              numeric_cells_changed |->
                  acc.numeric_cells_changed
                      + (IF r.contribution > 0 THEN 1 ELSE 0),
              panicked |-> FALSE]

\* ----------------------------------------------------- diff/coverage.rs

NoChange == [kind |-> "NoChange", cutoff |-> 0, coverage |-> 0]
Diffuse(c) == [kind |-> "Diffuse", cutoff |-> 0, coverage |-> c]
Explainable(k, c) == [kind |-> "Explainable", cutoff |-> k, coverage |-> c]

RECURSIVE SumFrom(_, _, _)
\* Iterator::sum and the running `cumulative`: left to right, from acc.
SumFrom(cs, n, acc) ==
    IF n = 0 THEN acc ELSE FAdd(SumFrom(cs, n - 1, acc), cs[n])

RECURSIVE CoverageLoop(_, _, _, _, _)
\* The for loop of evaluate_coverage from 1-based index idx on.
CoverageLoop(cs, idx, cumulative, total_change, threshold) ==
    IF idx > Len(cs)
    THEN Explainable(Len(cs), FDiv(SumFrom(cs, Len(cs), 0), total_change))
    ELSE LET cum == FAdd(cumulative, cs[idx])
             coverage == FDiv(cum, total_change)
         IN  IF coverage >= threshold THEN Explainable(idx, coverage)
             ELSE CoverageLoop(cs, idx + 1, cum, total_change, threshold)

evaluate_coverage(contributions_desc, total_change, threshold) ==
    IF ~IsFinite(total_change) \/ total_change <= 0 THEN NoChange
    ELSE LET top_k_total == SumFrom(contributions_desc,
                                    Len(contributions_desc), 0)
             top_k_coverage == FDiv(top_k_total, total_change)
         IN  IF top_k_coverage < threshold THEN Diffuse(top_k_coverage)
             ELSE CoverageLoop(contributions_desc, 1, 0, total_change,
                               threshold)

\* --------------------------------------------------- orchestrator.rs (diff)

RECURSIVE DiffLoop(_, _, _, _, _)
\* The diff loops of run_diff over the first n numeric cells, row-major.
DiffLoop(cells, n, acc, build, tolerance) ==
    IF n = 0 THEN acc
    ELSE ObserveCell(DiffLoop(cells, n - 1, acc, build, tolerance),
                     build, tolerance, cells[n])

\* The orders BinaryHeap::into_vec may return the retained items in.
IntoVec(heap) ==
    {v \in [1..Cardinality(heap) -> heap] :
        \A i, j \in 1..Cardinality(heap) : i # j => v[i] # v[j]}

Contributions(items) == [i \in 1..Len(items) |-> items[i].contribution]

\* collect_details: the second pass over the cells, filling the slot of
\* every top item whose cell id it meets, then dropping the empty slots.
collect_details(cells, top_items, tolerance) ==
    LET Slot(item) ==
            {c \in 1..Len(cells) :
                /\ cells[c].id = item.id
                /\ apply(tolerance, cells[c].old, cells[c].new).contribution # 0}
        filled == SelectSeq(top_items, LAMBDA item : Slot(item) # {})
    IN  [i \in 1..Len(filled) |->
            LET cell == cells[CHOOSE c \in Slot(filled[i]) :
                                  \A d \in Slot(filled[i]) : d <= c]
                r == apply(tolerance, cell.old, cell.new)
            IN  [id |-> cell.id, old |-> cell.old, new |-> cell.new,
                 delta |-> r.delta, contribution |-> r.contribution]]

RECURSIVE CumulativeShare(_, _, _)
\* The running `cumulative` of build_json_contributors after n details.
CumulativeShare(details, n, total_change) ==
    IF n = 0 THEN 0
    ELSE FAdd(CumulativeShare(details, n - 1, total_change),
              IF total_change > 0
              THEN FDiv(details[n].contribution, total_change) ELSE 0)

build_json_contributors(details, total_change) ==
    [i \in 1..Len(details) |->
        [id |-> details[i].id,
         old |-> details[i].old,
         new |-> details[i].new,
         delta |-> details[i].delta,
         contribution |-> details[i].contribution,
         share |-> IF total_change > 0
                   THEN FDiv(details[i].contribution, total_change) ELSE 0,
         cumulative_share |-> CumulativeShare(details, i, total_change)]]

\* ---------------------------------------------------------- cli/exit.rs

NoOutcome ==
    [kind |-> "NONE", code |-> "", total_change |-> 0, max_abs_delta |-> 0,
     coverage |-> 0, contributors |-> <<>>, suggested_keys |-> <<>>,
     detail |-> <<>>]

NoRealChange(acc) ==
    [NoOutcome EXCEPT !.kind = "NO_REAL_CHANGE",
                      !.total_change = acc.total_change,
                      !.max_abs_delta = acc.max_abs_delta]

RealChange(acc, contributors, coverage) ==
    [NoOutcome EXCEPT !.kind = "REAL_CHANGE",
                      !.total_change = acc.total_change,
                      !.max_abs_delta = acc.max_abs_delta,
                      !.coverage = coverage,
                      !.contributors = contributors]

Refusal(code) == [NoOutcome EXCEPT !.kind = "REFUSAL", !.code = code]

exit_code(o) ==
    CASE o.kind = "NO_REAL_CHANGE" -> 0
      [] o.kind = "REAL_CHANGE" -> 1
      [] o.kind = "REFUSAL" -> 2

\* The exit status of a process that panicked (Rust's panic runtime).
PanicExit == 101

\* The final match of run_diff on the coverage decision.
Verdict(decision, acc, cells, top_items, tolerance) ==
    CASE decision.kind = "NoChange" -> NoRealChange(acc)
      [] decision.kind = "Diffuse" ->
            [Refusal("E_DIFFUSE") EXCEPT
                !.coverage = decision.coverage,
                !.total_change = acc.total_change,
                !.max_abs_delta = acc.max_abs_delta]
      [] decision.kind = "Explainable" ->
            RealChange(acc,
                build_json_contributors(
                    collect_details(cells,
                        SubSeq(top_items, 1, decision.cutoff), tolerance),
                    acc.total_change),
                decision.coverage)

\* ------------------------------------------------- normalize/headers.rs

\* "__rvl_col_<index>" for a one-digit index.
RvlCol(index) == <<95, 95, 114, 118, 108, 95, 99, 111, 108, 95, 48 + index>>

\* A normalization that strips one leading blank only.
strip_one_blank(header, index) ==
    IF header = <<>> THEN RvlCol(index)
    ELSE IF is_ascii_blank(header[1]) THEN Tail(header)
    ELSE header

normalize_header_name(header, index) ==
    IF ascii_trim(header) = <<>> THEN RvlCol(index) ELSE ascii_trim(header)

\* normalize_headers: the normalized names, or the first duplicate met.
normalize_headers(headers) ==
    LET names == [i \in 1..Len(headers) |-> normalize_header_name(headers[i], i)]
        Dup(i) == \E j \in 1..(i - 1) : names[j] = names[i]
    IN  IF \E i \in 1..Len(names) : Dup(i)
        THEN [err |-> TRUE,
              name |-> names[CHOOSE i \in 1..Len(names) :
                                 Dup(i) /\ \A j \in 1..(i - 1) : ~Dup(j)],
              headers |-> <<>>]
        ELSE [err |-> FALSE, name |-> <<>>, headers |-> names]

\* ------------------------------------------------------------ csv/blank.rs

is_ascii_blank_slice(field) == \A i \in 1..Len(field) : is_ascii_blank(field[i])

is_blank_line(line) ==
    is_ascii_blank_slice(IF line # <<>> /\ line[Len(line)] = 13
                         THEN SubSeq(line, 1, Len(line) - 1) ELSE line)

is_blank_record(record) ==
    \A i \in 1..Len(record) : ascii_trim(record[i]) = <<>>

\* ----------------------------------------------------------- csv/parser.rs

RECURSIVE Split(_, _)
\* The fields csv::Reader yields for a line that holds no quote.
Split(line, delimiter) ==
    IF \A i \in 1..Len(line) : line[i] # delimiter THEN <<line>>
    ELSE LET p == CHOOSE i \in 1..Len(line) :
                      line[i] = delimiter /\ \A j \in 1..(i - 1) : line[j] # delimiter
         IN  <<SubSeq(line, 1, p - 1)>>
             \o Split(SubSeq(line, p + 1, Len(line)), delimiter)

\* The records build_reader's reader yields: one per line, empty lines
\* skipped, any number of fields per record (flexible).
ReadRecords(lines, delimiter) ==
    LET kept == SelectSeq(lines, LAMBDA l : l # <<>>)
    IN  [i \in 1..Len(kept) |-> Split(kept[i], delimiter)]

\* ---------------------------------------------------------- csv/records.rs

\* A width check that refuses every record wider than the header.
refuse_wider_record(record, header_len, record_number) ==
    [err |-> Len(record) > header_len, record_number |-> record_number]

\* normalize_record: whether a field past the header width is not blank.
normalize_record(record, header_len, record_number) ==
    [err |-> \E i \in (header_len + 1)..Len(record) :
                 ~is_ascii_blank_slice(record[i]),
     record_number |-> record_number]

\* owned_record of a NormalizedRecord: exactly header_len fields.
owned_record(record, header_len) ==
    [i \in 1..header_len |-> Field(record, i)]

\* ---------------------------------------------------------- csv/dialect.rs

\* Comma, tab and semicolon.  On a file that holds no '|' and no '^' those
\* two candidates score as the semicolon does and rank after it.
CANDIDATE_DELIMITERS == <<44, 9, 59, 124, 94>>

effective_field_count(record, header_fields) ==
    IF Len(record) <= header_fields THEN header_fields
    ELSE IF \A i \in (header_fields + 1)..Len(record) :
                is_ascii_blank_slice(record[i])
    THEN header_fields
    ELSE Len(record)

RECURSIVE normalize_record_for_compare(_, _)
normalize_record_for_compare(record, header_fields) ==
    IF Len(record) < header_fields
    THEN [i \in 1..header_fields |-> Field(record, i)]
    ELSE IF Len(record) > header_fields
            /\ is_ascii_blank_slice(record[Len(record)])
    THEN normalize_record_for_compare(SubSeq(record, 1, Len(record) - 1),
                                      header_fields)
    ELSE record

skip_leading_blank_lines(lines) ==
    IF \A i \in 1..Len(lines) : is_blank_line(lines[i]) THEN <<>>
    ELSE SubSeq(lines,
                CHOOSE i \in 1..Len(lines) :
                    ~is_blank_line(lines[i])
                    /\ \A j \in 1..(i - 1) : is_blank_line(lines[j]),
                Len(lines))

\* The records sample_with_escape counts: the first one as the header, then
\* the data records that are not blank.
Sampled(records) ==
    IF records = <<>> THEN <<>>
    ELSE <<records[1]>>
         \o SelectSeq(Tail(records), LAMBDA r : ~is_blank_record(r))

RECURSIVE Histogram(_, _, _)
\* push_histogram over the first n sampled records: the HashMap from
\* effective field count to number of records.
Histogram(records, header_fields, n) ==
    IF n = 0 THEN <<>>
    ELSE LET h == Histogram(records, header_fields, n - 1)
             fields == effective_field_count(records[n], header_fields)
         IN  [k \in DOMAIN h \cup {fields} |->
                 IF k = fields
                 THEN (IF fields \in DOMAIN h THEN h[fields] ELSE 0) + 1
                 ELSE h[k]]

\* The orders a HashMap may be iterated in.
IterOrders(keys) ==
    {v \in [1..Cardinality(keys) -> keys] :
        \A i, j \in 1..Cardinality(keys) : i # j => v[i] # v[j]}

RECURSIVE ModeLoop(_, _, _)
\* The loop of compute_mode over the first n entries of the iteration.
ModeLoop(histogram, order, n) ==
    IF n = 0 THEN [mode_count |-> 0, mode_fields |-> 0]
    ELSE LET mode == ModeLoop(histogram, order, n - 1)
             fields == order[n]
             count == histogram[fields]
         IN  IF count > mode.mode_count
                \/ (count = mode.mode_count /\ fields > mode.mode_fields)
             THEN [mode_count |-> count, mode_fields |-> fields]
             ELSE mode

compute_mode(histogram, order) == ModeLoop(histogram, order, Len(order))

\* The histogram sample_with_escape builds from the records it samples.
HistogramOf(records) == Histogram(records, Len(records[1]), Len(records))

\* The histogram sample_with_escape builds for a delimiter.
SampleHistogram(lines, delimiter) ==
    HistogramOf(Sampled(ReadRecords(lines, delimiter)))

\* The SampleParse of the sampled records, the histogram iterated in the
\* given order.
SampleOf(records, delimiter, order) ==
    [delimiter |-> delimiter,
     header_fields |-> Len(records[1]),
     score |-> <<Len(records),
                 compute_mode(HistogramOf(records), order).mode_count,
                 compute_mode(HistogramOf(records), order).mode_fields>>,
     records |-> [i \in 1..Len(records) |->
                     normalize_record_for_compare(records[i],
                                                  Len(records[1]))]]

\* sample_with_escape on lines without quotes.
sample_with_escape(lines, delimiter, order) ==
    SampleOf(Sampled(ReadRecords(lines, delimiter)), delimiter, order)

\* DialectScore::cmp_tuple = Less.
ScoreLess(l, r) ==
    \/ l[1] < r[1]
    \/ l[1] = r[1] /\ l[2] < r[2]
    \/ l[1] = r[1] /\ l[2] = r[2] /\ l[3] < r[3]

\* The greatest score among the candidates.
BestScore(candidates) ==
    candidates[CHOOSE d \in 1..Len(candidates) :
                  \A e \in 1..Len(candidates) :
                      ~ScoreLess(candidates[d].score, candidates[e].score)].score

\* An end of auto_detect that takes the first of the tied candidates
\* whatever they sampled.
choose_first_tied(tied) ==
    IF tied[1].header_fields = 1
    THEN [err |-> "SingleColumn", delimiter |-> 0,
          tied |-> <<tied[1].delimiter>>]
    ELSE [err |-> "", delimiter |-> tied[1].delimiter, tied |-> <<>>]

\* The end of auto_detect, on the candidates with the best score in rank
\* order.
ChooseTied(tied) ==
    IF \E i \in 1..Len(tied) : tied[i].records # tied[1].records
    THEN [err |-> "Ambiguous", delimiter |-> 0,
          tied |-> [i \in 1..Len(tied) |-> tied[i].delimiter]]
    ELSE IF tied[1].header_fields = 1
    THEN [err |-> "SingleColumn", delimiter |-> 0,
          tied |-> <<tied[1].delimiter>>]
    ELSE [err |-> "", delimiter |-> tied[1].delimiter, tied |-> <<>>]

Tied(candidates, best_score) ==
    SelectSeq(candidates, LAMBDA c : c.score = best_score)

\* auto_detect from the scored candidates on.
DetectSampled(candidates) ==
    ChooseTied(Tied(candidates, BestScore(candidates)))

\* auto_detect after skip_leading_blank_lines.
DetectTrimmed(trimmed, orders) ==
    IF trimmed = <<>>
    THEN [err |-> "NoHeader", delimiter |-> 0, tied |-> <<>>]
    ELSE DetectSampled([d \in 1..Len(CANDIDATE_DELIMITERS) |->
                           sample_with_escape(trimmed, CANDIDATE_DELIMITERS[d],
                                              orders[d])])

\* auto_detect; orders[d] is the iteration order of the histogram of the
\* d-th candidate delimiter.
auto_detect(lines, orders) ==
    DetectTrimmed(skip_leading_blank_lines(lines), orders)

\* The key sets of the histograms auto_detect builds.
ModeKeys(trimmed) ==
    [d \in 1..Len(CANDIDATE_DELIMITERS) |->
        IF trimmed = <<>> THEN {}
        ELSE DOMAIN SampleHistogram(trimmed, CANDIDATE_DELIMITERS[d])]

OrdersOf(keys) ==
    {o \in [DOMAIN keys -> UNION {IterOrders(keys[d]) : d \in DOMAIN keys}] :
        \A d \in DOMAIN keys : o[d] \in IterOrders(keys[d])}

\* The iteration orders of the histograms auto_detect builds for a file.
ModeOrders(lines) == OrdersOf(ModeKeys(skip_leading_blank_lines(lines)))

\* -------------------------------------------------- orchestrator.rs (parse)

NoFile == [delimiter |-> 0, headers |-> <<>>, records |-> <<>>]

\* The first data record normalize_record rejects; 0 when there is none.
FirstExtraFields(data, header_len) ==
    IF \E n \in 1..Len(data) : normalize_record(data[n], header_len, n).err
    THEN CHOOSE n \in 1..Len(data) :
             /\ normalize_record(data[n], header_len, n).err
             /\ \A m \in 1..(n - 1) : ~normalize_record(data[m], header_len, m).err
    ELSE 0

ParseFailure(code, detail) ==
    [refusal |-> [Refusal(code) EXCEPT !.detail = detail], parsed |-> NoFile]

\* The records left when the read loop of parse_csv has skipped the blank
\* one-field records before the header.
FromHeader(read) ==
    IF \A i \in 1..Len(read) : is_blank_record(read[i]) /\ Len(read[i]) = 1
    THEN <<>>
    ELSE SubSeq(read,
                CHOOSE i \in 1..Len(read) :
                    /\ ~(is_blank_record(read[i]) /\ Len(read[i]) = 1)
                    /\ \A j \in 1..(i - 1) :
                           is_blank_record(read[j]) /\ Len(read[j]) = 1,
                Len(read))

\* The read loop of parse_csv on the data records that are not blank.
ParseData(file_side, delimiter, header, data) ==
    IF header.err
    THEN ParseFailure("E_HEADERS", <<file_side, "Duplicate", header.name>>)
    ELSE IF FirstExtraFields(data, Len(header.headers)) # 0
    THEN ParseFailure("E_HEADERS",
             <<file_side, "ExtraFields",
               FirstExtraFields(data, Len(header.headers))>>)
    ELSE [refusal |-> NoOutcome,
          parsed |-> [delimiter |-> delimiter,
                      headers |-> header.headers,
                      records |-> [i \in 1..Len(data) |->
                                      owned_record(data[i],
                                                   Len(header.headers))]]]

\* The read loop of parse_csv from the header on.
ParseRecords(file_side, delimiter, records) ==
    IF records = <<>>
    THEN ParseFailure("E_HEADERS", <<file_side, "MissingHeader">>)
    ELSE ParseData(file_side, delimiter, normalize_headers(records[1]),
                   SelectSeq(Tail(records), LAMBDA r : ~is_blank_record(r)))

\* parse_csv once the delimiter is known.
ParseDelimited(lines, file_side, delimiter) ==
    ParseRecords(file_side, delimiter,
                 FromHeader(ReadRecords(lines, delimiter)))

\* parse_csv after auto_detect.
ParseDetected(lines, file_side, detected) ==
    IF detected.err = "NoHeader"
    THEN ParseFailure("E_HEADERS", <<file_side, "MissingHeader">>)
    ELSE IF detected.err # ""
    THEN ParseFailure("E_DIALECT", <<file_side, detected.err, detected.tied>>)
    ELSE ParseDelimited(lines, file_side, detected.delimiter)

\* parse_csv of a file without quotes and without a sep= directive.  fault
\* stands for what the model does not read byte by byte: "Io" (fs::read
\* fails), "Encoding" (guard_input_bytes fails), "CsvParse" (no escape mode
\* parses the quotes).  forced is 0 without --delimiter.
parse_csv(file, file_side, forced, orders) ==
    IF file.fault = "Io" THEN ParseFailure("E_IO", <<file_side>>)
    ELSE IF file.fault = "Encoding"
    THEN ParseFailure("E_ENCODING", <<file_side>>)
    ELSE IF file.fault = "CsvParse"
    THEN ParseFailure("E_CSV_PARSE", <<file_side>>)
    ELSE IF forced # 0 THEN ParseDelimited(file.lines, file_side, forced)
    ELSE ParseDetected(file.lines, file_side, auto_detect(file.lines, orders))

\* ------------------------------------------------- alignment/key_parse.rs

StartsWith(bytes, prefix) ==
    Len(bytes) >= Len(prefix) /\ SubSeq(bytes, 1, Len(prefix)) = prefix

\* from_hex_digit; -1 for a byte that is no hex digit.
from_hex_digit(b) ==
    IF b >= 48 /\ b <= 57 THEN b - 48
    ELSE IF b >= 97 /\ b <= 102 THEN b - 87
    ELSE IF b >= 65 /\ b <= 70 THEN b - 55
    ELSE -1

\* A decoder that reads the low digit of each byte first.
decode_hex_low_first(hex) ==
    IF hex = <<>> THEN [err |-> "InvalidHex", bytes |-> <<>>]
    ELSE IF Len(hex) % 2 # 0 THEN [err |-> "OddHexLen", bytes |-> <<>>]
    ELSE IF \E i \in 1..Len(hex) : from_hex_digit(hex[i]) = -1
    THEN [err |-> "InvalidHex", bytes |-> <<>>]
    ELSE [err |-> "",
          bytes |-> [i \in 1..(Len(hex) \div 2) |->
                        16 * from_hex_digit(hex[2 * i])
                        + from_hex_digit(hex[2 * i - 1])]]

decode_hex_bytes(hex) ==
    IF hex = <<>> THEN [err |-> "InvalidHex", bytes |-> <<>>]
    ELSE IF Len(hex) % 2 # 0 THEN [err |-> "OddHexLen", bytes |-> <<>>]
    ELSE IF \E i \in 1..Len(hex) : from_hex_digit(hex[i]) = -1
    THEN [err |-> "InvalidHex", bytes |-> <<>>]
    ELSE [err |-> "",
          bytes |-> [i \in 1..(Len(hex) \div 2) |->
                        16 * from_hex_digit(hex[2 * i - 1])
                        + from_hex_digit(hex[2 * i])]]

parse_key_identifier(input) ==
    IF input = <<>> THEN [err |-> "Empty", bytes |-> <<>>]
    ELSE IF StartsWith(input, <<117, 56, 58>>)
    THEN [err |-> "", bytes |-> SubSeq(input, 4, Len(input))]
    ELSE IF StartsWith(input, <<104, 101, 120, 58>>)
    THEN decode_hex_bytes(SubSeq(input, 5, Len(input)))
    ELSE [err |-> "", bytes |-> input]

\* ---------------------------------------------------- orchestrator.rs (run)

find_key_index(headers, key) == Position(headers, key)

map_key_join_error(err, file_side) ==
    CASE err.kind = "EmptyKey" ->
            [Refusal("E_KEY_EMPTY") EXCEPT
                !.detail = <<file_side, err.record_number>>]
      [] err.kind = "DuplicateKey" ->
            [Refusal("E_KEY_DUP") EXCEPT
                !.detail = <<file_side, err.record_number, err.key>>]
      [] err.kind = "KeySetMismatch" ->
            [Refusal("E_KEY_MISMATCH") EXCEPT
                !.detail = <<err.missing_count, err.extra_count,
                             err.missing_samples, err.extra_samples>>]

Aligned(rows) == [refusal |-> NoOutcome, rows |-> rows]
Refused(refusal) == [refusal |-> refusal, rows |-> <<>>]

\* The key map run_key_mode builds from a parsed file.
KeyMapOf(file, key) ==
    build_key_map(file.records, find_key_index(file.headers, key),
                  Len(file.records))

\* The rows run_key_mode hands to run_diff.
KeyRows(joined) ==
    IF joined.err.kind # ""
    THEN Refused(map_key_join_error(joined.err, "New"))
    ELSE Aligned([i \in 1..Len(joined.aligned) |->
                    [id |-> Key(joined.aligned[i].key),
                     old_record |-> joined.aligned[i].old.record_number,
                     new_record |-> joined.aligned[i].new.record_number,
                     old |-> joined.aligned[i].old.fields,
                     new |-> joined.aligned[i].new.fields]])

\* A run_key_mode that looks at the key map of new first.
JoinMapsNewFirst(old_map, new_map, old_order, new_order) ==
    IF new_map.err.kind # ""
    THEN Refused(map_key_join_error(new_map.err, "New"))
    ELSE IF old_map.err.kind # ""
    THEN Refused(map_key_join_error(old_map.err, "Old"))
    ELSE KeyRows(join_key_maps(old_map.entries, new_map.entries,
                               old_order, new_order))

\* run_key_mode from the two key maps on.
JoinMaps(old_map, new_map, old_order, new_order) ==
    IF old_map.err.kind # ""
    THEN Refused(map_key_join_error(old_map.err, "Old"))
    ELSE IF new_map.err.kind # ""
    THEN Refused(map_key_join_error(new_map.err, "New"))
    ELSE KeyRows(join_key_maps(old_map.entries, new_map.entries,
                               old_order, new_order))

\* run_key_mode up to its call of run_diff: the refusal it renders, or the
\* aligned rows.  The two key maps are iterated in the given orders.
run_key_mode(key, old_file, new_file, old_order, new_order) ==
    IF find_key_index(old_file.headers, key) = 0
       \/ find_key_index(new_file.headers, key) = 0
    THEN Refused([Refusal("E_NO_KEY") EXCEPT !.detail = <<key>>])
    ELSE JoinMaps(KeyMapOf(old_file, key), KeyMapOf(new_file, key),
                  old_order, new_order)

\* A run_row_order that pairs the rows the two files both have.
run_row_order_unchecked(old_file, new_file) ==
    Aligned([i \in 1..(IF Len(old_file.records) < Len(new_file.records)
                       THEN Len(old_file.records)
                       ELSE Len(new_file.records)) |->
                [id |-> RowIndex(i),
                 old_record |-> i,
                 new_record |-> i,
                 old |-> old_file.records[i],
                 new |-> new_file.records[i]]])

\* run_row_order up to its call of run_diff.
run_row_order(old_file, new_file) ==
    IF Len(old_file.records) # Len(new_file.records)
    THEN Refused([Refusal("E_ROWCOUNT") EXCEPT
                     !.suggested_keys =
                         candidate_names(
                             discover_key_candidates(
                                 old_file.headers, new_file.headers,
                                 old_file.records, new_file.records), 3),
                     !.detail = <<Len(old_file.records),
                                  Len(new_file.records)>>])
    ELSE Aligned([i \in 1..Len(old_file.records) |->
                    [id |-> RowIndex(i),
                     old_record |-> i,
                     new_record |-> i,
                     old |-> old_file.records[i],
                     new |-> new_file.records[i]]])

\* RowRef::record_for.
record_for(row, side) == IF side = "Old" THEN row.old_record ELSE row.new_record

\* A mapping that reports the side of the error as it stands.
map_column_error_same_side(err, rows) ==
    [Refusal(IF err.kind = "MixedTypes" THEN "E_MIXED_TYPES"
             ELSE "E_MISSINGNESS") EXCEPT
        !.detail = <<err.side, record_for(rows[err.row], err.side),
                     err.column, err.value, rows[err.row].id.key>>]

map_column_error(err, rows) ==
    LET row == rows[err.row]
        present_side == IF err.side = "Old" THEN "New" ELSE "Old"
    IN  IF err.kind = "MixedTypes"
        THEN [Refusal("E_MIXED_TYPES") EXCEPT
                 !.detail = <<err.side, record_for(row, err.side),
                              err.column, err.value, row.id.key>>]
        ELSE [Refusal("E_MISSINGNESS") EXCEPT
                 !.detail = <<present_side, record_for(row, present_side),
                              err.column, err.value, row.id.key>>]

RECURSIVE NumericCells(_, _, _)
\* The cells the diff loops of run_diff hand to the accumulator among the
\* first n (row, column) pairs, row-major: those where not both sides are
\* missing and both sides parse.
NumericCells(rows, columns, n) ==
    IF n = 0 THEN <<>>
    ELSE LET before == NumericCells(rows, columns, n - 1)
             row == rows[((n - 1) \div Len(columns)) + 1]
             column == columns[((n - 1) % Len(columns)) + 1]
             old_raw == Field(row.old, column.old_index)
             new_raw == Field(row.new, column.new_index)
             old_val == parse_numeric(old_raw)
             new_val == parse_numeric(new_raw)
         IN  IF is_missing_token(old_raw) /\ is_missing_token(new_raw)
             THEN before
             ELSE IF old_val.some /\ new_val.some
             THEN Append(before, [id |-> CellId(row.id, column.name),
                                  old |-> old_val.value,
                                  new |-> new_val.value])
             ELSE before

\* run_diff from detect_numeric_columns to its diff loops.
Typed(rows, typed) ==
    IF typed.err.kind # ""
    THEN [refusal |-> map_column_error(typed.err, rows), cells |-> <<>>]
    ELSE IF typed.numeric = <<>>
    THEN [refusal |-> Refusal("E_NO_NUMERIC"), cells |-> <<>>]
    ELSE [refusal |-> NoOutcome,
          cells |-> NumericCells(rows, typed.numeric,
                                 Len(rows) * Len(typed.numeric))]

\* What run_diff has before its diff loops: the refusal it renders, or the
\* numeric cells in visit order.
Prepare(rows, old_headers, new_headers, key) ==
    Typed(rows,
          detect_numeric_columns(
              intersect_headers(old_headers, new_headers, key).common, rows))

\* A shuffle guard that does not look at total_change.
GuardedWithoutChange(has_key, detection, decision, acc, cells, top_items, tolerance) ==
    IF ~has_key /\ detection.reordered
    THEN [Refusal("E_NEED_KEY") EXCEPT
             !.suggested_keys = detection.suggested_keys]
    ELSE Verdict(decision, acc, cells, top_items, tolerance)

\* The shuffle guard of run_diff, then its match on the coverage decision.
Guarded(has_key, detection, decision, acc, cells, top_items, tolerance) ==
    IF ~has_key /\ acc.total_change > 0 /\ detection.reordered
    THEN [Refusal("E_NEED_KEY") EXCEPT
             !.suggested_keys = detection.suggested_keys]
    ELSE Verdict(decision, acc, cells, top_items, tolerance)

\* ------------------------------------------------------------------ state

VARIABLES
    pc,           \* where the run is
    build,        \* "debug" or "release": whether debug_assert! is compiled in
    args,         \* the command line: threshold, tolerance, --key
    corpus,       \* the headers and the rows the two files are written from
    old,          \* the old file: as written, then as parse_csv returns it
    new,          \* the new file, likewise
    cells,        \* the numeric cells the diff pass is fed, in visit order
    accumulator,  \* DiffAccumulator, TieBreaker and numeric_cells_changed
    top,          \* the retained contributors after sort_contributors
    decision,     \* CoverageDecision
    outcome,      \* what the run renders
    exit          \* the process exit status, -1 while running

vars ==
    <<pc, build, args, corpus, old, new, cells, accumulator, top, decision,
      outcome, exit>>

Builds == {"debug", "release"}

\* A file that was not written.
NoInput == [lines |-> <<>>, fault |-> ""]

\* --threshold values: 0.5, 0.75 and 1.0.
Thresholds == {One \div 2, (3 * One) \div 4, One}

\* --tolerance values: 0 and one unit.
Tolerances == {0, 1}

\* ------------------------------------------- DiffSpec: the diff engine

\* (old, new) values of a numeric cell: unchanged, small changes in both
\* directions, and changes whose magnitude is or exceeds f64::MAX.
CellPairs ==
    {<<0, 0>>, <<0, 1>>, <<0, 3>>, <<6, 0>>,
     <<0, MaxFinite>>, <<-MaxFinite, MaxFinite>>}

DiffArgs ==
    [valid : {TRUE}, threshold : Thresholds, tolerance : Tolerances,
     has_key : {FALSE}, key : {<<>>}, delimiter : {0}]


DiffInit ==
    /\ pc = "diff"
    /\ build \in Builds
    /\ args \in DiffArgs
    /\ corpus = [old |-> NoInput, new |-> NoInput]
    /\ old = NoFile
    /\ new = NoFile
    /\ cells = <<>>
    /\ accumulator = NewAccumulator
    /\ top = <<>>
    /\ decision = NoChange
    /\ outcome = NoOutcome
    /\ exit = -1

\* One iteration of the diff loop on the next cell.
DiffObserve ==
    /\ pc = "diff"
    /\ Len(cells) < MaxCells
    /\ \E pair \in CellPairs :
        LET cell == [id |-> CellId(RowIndex(Len(cells) + 1), B_v),
                     old |-> pair[1], new |-> pair[2]]
            acc == ObserveCell(accumulator, build, args.tolerance, cell)
        IN  /\ cells' = Append(cells, cell)
            /\ accumulator' = acc
            /\ pc' = IF acc.panicked THEN "panicked" ELSE "diff"
            /\ exit' = IF acc.panicked THEN PanicExit ELSE exit
    /\ UNCHANGED <<build, args, corpus, old, new, top, decision, outcome>>

\* After the loop: into_vec, sort_contributors, evaluate_coverage.
DiffFinish ==
    /\ pc = "diff"
    /\ \E v \in IntoVec(accumulator.top) :
        /\ top' = sort_contributors(v)
        /\ decision' = evaluate_coverage(Contributions(top'),
                           accumulator.total_change, args.threshold)
    /\ pc' = "decided"
    /\ UNCHANGED <<build, args, corpus, old, new, cells, accumulator, outcome, exit>>

\* The final match of run_diff, the rendering and the exit code.
DiffEmit ==
    /\ pc = "decided"
    /\ outcome' = Verdict(decision, accumulator, cells, top, args.tolerance)
    /\ exit' = exit_code(outcome')
    /\ pc' = "done"
    /\ UNCHANGED <<build, args, corpus, old, new, cells, accumulator, top, decision>>

DiffNext == DiffObserve \/ DiffFinish \/ DiffEmit

DiffSpec == DiffInit /\ [][DiffNext]_vars

\* ------------------------------------------------- properties: diff engine

\* |new - old| of a cell in exact arithmetic.
ExactAbsDelta(cell) == FAbs(cell.new - cell.old)

\* The cells whose exact |delta| exceeds the tolerance.
ChangedCells == {i \in 1..Len(cells) : ExactAbsDelta(cells[i]) > args.tolerance}

RECURSIVE ExactSum(_)
\* The exact sum of |delta| over a set of cell indices.
ExactSum(S) ==
    IF S = {} THEN 0
    ELSE LET i == CHOOSE j \in S : TRUE
         IN  ExactAbsDelta(cells[i]) + ExactSum(S \ {i})

Rendered == pc = "done"

\* C2: a run answers NO REAL CHANGE only when every compared numeric cell
\* has |new - old| <= tolerance, and the max_abs_delta it reports is then at
\* most the tolerance.
C2_NoRealChangeWithinTolerance ==
    (Rendered /\ outcome.kind = "NO_REAL_CHANGE") =>
        /\ \A i \in 1..Len(cells) : ExactAbsDelta(cells[i]) <= args.tolerance
        /\ outcome.max_abs_delta <= args.tolerance

\* C5: when total_change > 0, the sum of the retained top-K contributions
\* is at most total_change, and equals it when at most MAX_CONTRIBUTORS
\* cells changed.
C5_RetainedSumBounded ==
    (pc \in {"decided", "done"} /\ accumulator.total_change > 0) =>
        LET retained == SumFrom(Contributions(top), Len(top), 0)
        IN  /\ retained <= accumulator.total_change
            /\ Cardinality(ChangedCells) <= MAX_CONTRIBUTORS
                   => retained = accumulator.total_change

\* C9: in a REAL_CHANGE result the contributors' cumulative_share never
\* decreases down the list and the last one is at least the threshold.
C9_CumulativeShareReachesThreshold ==
    (Rendered /\ outcome.kind = "REAL_CHANGE") =>
        LET cs == outcome.contributors
        IN  /\ \A i \in 1..(Len(cs) - 1) :
                   cs[i].cumulative_share <= cs[i + 1].cumulative_share
            /\ Len(cs) > 0
            /\ cs[Len(cs)].cumulative_share >= args.threshold

\* C4: the contributors of a REAL CHANGE are a smallest explanation: no
\* set of fewer changed cells, drawn from all compared cells, has a summed
\* contribution of at least threshold * total_change.
C4_SmallestExplanation ==
    (Rendered /\ outcome.kind = "REAL_CHANGE") =>
        \A S \in SUBSET ChangedCells :
            Cardinality(S) < Len(outcome.contributors) =>
                ExactSum(S) * One < args.threshold * outcome.total_change

\* ------------------------------- CoverageSpec: evaluate_coverage alone

\* Contribution values handed to evaluate_coverage.
CoverageValues == {1, 3, 6, MaxFinite}

\* total_change values handed to evaluate_coverage.
CoverageTotals == {0, 1, 3, 6, 8, 10, 12, 14, 16, MaxFinite, Inf}

\* The descending sequences of at most MAX_CONTRIBUTORS contributions.
DescendingContributions ==
    UNION {{cs \in [1..n -> CoverageValues] :
               \A i \in 1..(n - 1) : cs[i] >= cs[i + 1]} :
           n \in 0..MAX_CONTRIBUTORS}

CoverageInit ==
    /\ pc = "coverage"
    /\ build \in Builds
    /\ args \in [valid : {TRUE}, threshold : Thresholds, tolerance : {0},
                 has_key : {FALSE}, key : {<<>>}, delimiter : {0}]
    /\ corpus = [old |-> NoInput, new |-> NoInput]
    /\ old = NoFile
    /\ new = NoFile
    /\ cells = <<>>
    /\ \E t \in CoverageTotals :
           accumulator = [NewAccumulator EXCEPT !.total_change = t]
    /\ \E cs \in DescendingContributions :
           top = [i \in 1..Len(cs) |->
                     Contributor(CellId(RowIndex(i), B_v), cs[i], cs[i], i)]
    /\ decision = NoChange
    /\ outcome = NoOutcome
    /\ exit = -1

EvaluateCoverage ==
    /\ pc = "coverage"
    /\ decision' = evaluate_coverage(Contributions(top),
                       accumulator.total_change, args.threshold)
    /\ pc' = "decided"
    /\ UNCHANGED <<build, args, corpus, old, new, cells, accumulator, top, outcome, exit>>

CoverageNext == EvaluateCoverage

CoverageSpec == CoverageInit /\ [][CoverageNext]_vars

\* C3: total_change = 0 gives NoChange; any other total_change gives
\* Diffuse exactly when (sum of the contributions) / total_change is below
\* the threshold, and otherwise Explainable whose cutoff is the least prefix
\* length with prefix-sum / total_change >= threshold and whose coverage is
\* that prefix's.
C3_CoverageDecision ==
    pc = "decided" =>
        LET cs == Contributions(top)
            t == accumulator.total_change
            Cov(k) == FDiv(SumFrom(cs, k, 0), t)
            Reaching == {k \in 1..Len(cs) : Cov(k) >= args.threshold}
        IN  /\ t = 0 => decision.kind = "NoChange"
            /\ t # 0 => decision.kind # "NoChange"
            /\ (t # 0 /\ IsFinite(t)) =>
                 /\ decision.kind = "Diffuse" <=> Cov(Len(cs)) < args.threshold
                 /\ decision.kind = "Explainable" =>
                      /\ decision.cutoff \in Reaching
                      /\ \A k \in Reaching : decision.cutoff <= k
                      /\ decision.coverage = Cov(decision.cutoff)

\* The same statement on the finite totals only.
CoverageDecisionOnFiniteTotals ==
    IsFinite(accumulator.total_change) => C3_CoverageDecision

\* ------------------------------------------------- Spec: a run of rvl

RECURSIVE WriteLine(_)
\* A record written as a line: its fields joined by commas.
WriteLine(fields) ==
    IF Len(fields) = 0 THEN <<>>
    ELSE IF Len(fields) = 1 THEN fields[1]
    ELSE fields[1] \o <<44>> \o WriteLine(Tail(fields))

\* A CSV file written from a header and rows.
WriteFile(headers, rows) ==
    [lines |-> <<WriteLine(headers)>>
               \o [i \in 1..Len(rows) |-> WriteLine(rows[i])],
     fault |-> ""]

\* Files that are no table: unreadable, not UTF-8, unbalanced quotes, empty,
\* one column, a repeated header, and a record with a tab in an extra field.
SpecialFiles ==
    {[lines |-> <<>>, fault |-> "Io"],
     [lines |-> <<>>, fault |-> "Encoding"],
     [lines |-> <<>>, fault |-> "CsvParse"],
     [lines |-> <<>>, fault |-> ""],
     WriteFile(<<B_id>>, <<<<B_a>>>>),
     WriteFile(<<B_id, B_sp_a, B_a>>, <<>>),
     WriteFile(<<B_id, B_v>>, <<<<B_a, B_1, <<48, 9, 49>>>>>>)}

NoKeyArg == [has_key |-> FALSE, key |-> <<>>]
KeyArg(raw) == [has_key |-> TRUE, key |-> raw]

\* --key id written as hex:6964.
HexId == <<104, 101, 120, 58, 54, 57, 54, 52>>
\* --key hex:696 (odd length).
HexOdd == <<104, 101, 120, 58, 54, 57, 54>>

\* The families of runs: the header and the rows the two files are written
\* from, the other files tried, and the arguments tried with them.
Scenarios ==
    {[name |-> "plain",
      headers |-> <<B_id, B_v>>,
      rows |-> {<<B_a, B_0>>, <<B_b, B_0>>, <<B_b, B_1>>},
      special |-> SpecialFiles,
      thresholds |-> {One},
      tolerances |-> {0, One},
      keys |-> {NoKeyArg, KeyArg(B_id)},
      delimiters |-> {0},
      builds |-> {"release"}],
     [name |-> "keys",
      headers |-> <<B_id, B_v>>,
      rows |-> {<<B_a, B_0>>, <<B_b, B_1>>},
      special |-> {},
      thresholds |-> {One},
      tolerances |-> {0},
      keys |-> {KeyArg(HexId), KeyArg(<<>>), KeyArg(HexOdd), KeyArg(B_x)},
      delimiters |-> {0},
      builds |-> {"release"}],
     [name |-> "huge",
      headers |-> <<B_id, B_v>>,
      rows |-> {<<B_a, B_0>>, <<B_a, B_1e308>>, <<B_a, B_neg1e308>>},
      special |-> {},
      thresholds |-> {One},
      tolerances |-> {0},
      keys |-> {NoKeyArg},
      delimiters |-> {0},
      builds |-> Builds],
     [name |-> "text",
      headers |-> <<B_id, B_v>>,
      rows |-> {<<B_a, B_1>>, <<B_b, B_x>>, <<B_b>>},
      special |-> {},
      thresholds |-> {One},
      tolerances |-> {0},
      keys |-> {NoKeyArg, KeyArg(B_id), KeyArg(B_v)},
      delimiters |-> {0},
      builds |-> {"release"}],
     [name |-> "long",
      headers |-> <<B_id, B_v>>,
      rows |-> {<<B_a, B_1>>, <<B_a, B_1, B_x>>},
      special |-> {},
      thresholds |-> {One},
      tolerances |-> {0},
      keys |-> {NoKeyArg},
      delimiters |-> {0, 44},
      builds |-> {"release"}],
     [name |-> "pad",
      headers |-> <<B_id, B_v>>,
      rows |-> {<<B_a, B_0>>, <<B_sp_a, B_1>>, <<B_b, B_0>>},
      special |-> {},
      thresholds |-> {One},
      tolerances |-> {0},
      keys |-> {NoKeyArg, KeyArg(B_id), KeyArg(B_v)},
      delimiters |-> {0},
      builds |-> {"release"}],
     [name |-> "wide",
      headers |-> <<B_k1, B_k2, B_v, B_k3>>,
      rows |-> {<<B_a, B_a, B_0, B_a>>, <<B_b, B_c, B_1, B_b>>,
                <<B_b, B_d, B_1, B_b>>},
      special |-> {},
      thresholds |-> {One},
      tolerances |-> {0},
      keys |-> {NoKeyArg, KeyArg(B_k1)},
      delimiters |-> {0},
      builds |-> {"release"}],
     [name |-> "two",
      headers |-> <<B_id, B_v, B_x>>,
      rows |-> {<<B_a, B_0, B_0>>, <<B_b, B_0, B_0>>, <<B_b, B_1, B_1>>},
      special |-> {},
      thresholds |-> {(3 * One) \div 4, One},
      tolerances |-> {0},
      keys |-> {NoKeyArg, KeyArg(B_id)},
      delimiters |-> {0},
      builds |-> {"release"}],
     [name |-> "blank",
      headers |-> <<B_id, B_v>>,
      rows |-> {<<B_a, B_0>>, <<B_b, B_1>>, <<B_empty, B_empty>>},
      special |-> {},
      thresholds |-> {One},
      tolerances |-> {0},
      keys |-> {NoKeyArg},
      delimiters |-> {0, 44},
      builds |-> {"release"}]}

\* The files of a family: every table of at most MaxRows of its rows, and
\* its other files.
Files(s) ==
    {WriteFile(s.headers, rows) :
        rows \in UNION {[1..n -> s.rows] : n \in 0..MaxRows}}
    \cup s.special

\* A command line Args::parse rejects.
InvalidArgs ==
    [valid |-> FALSE, threshold |-> One, tolerance |-> 0, has_key |-> FALSE,
     key |-> <<>>, delimiter |-> 0]

ArgsOf(s) ==
    {[valid |-> TRUE, threshold |-> t, tolerance |-> tol,
      has_key |-> k.has_key, key |-> k.key, delimiter |-> d] :
        t \in s.thresholds, tol \in s.tolerances, k \in s.keys,
        d \in s.delimiters}
    \cup {InvalidArgs}

Init ==
    /\ pc = "start"
    /\ \E s \in Scenarios :
        /\ build \in s.builds
        /\ args \in ArgsOf(s)
        /\ corpus \in [old : Files(s), new : Files(s)]
    /\ old = NoFile
    /\ new = NoFile
    /\ cells = <<>>
    /\ accumulator = NewAccumulator
    /\ top = <<>>
    /\ decision = NoChange
    /\ outcome = NoOutcome
    /\ exit = -1

\* Args::parse in lib::run: a rejected command line is printed and the run
\* returns 2; if the printing fails, the error goes to main.
ParseArgs ==
    /\ pc = "start"
    /\ IF args.valid
       THEN pc' = "args" /\ exit' = exit
       ELSE \E printed \in BOOLEAN :
               IF printed THEN pc' = "usage" /\ exit' = 2
               ELSE pc' = "error" /\ exit' = exit
    /\ UNCHANGED <<build, args, corpus, old, new, cells, accumulator, top,
                   decision, outcome>>

\* The --key bytes orchestrator::run works with.
KeyBytes ==
    IF args.has_key THEN parse_key_identifier(args.key)
    ELSE [err |-> "", bytes |-> <<>>]

\* What orchestrator::run has after the two calls of parse_csv.
Loaded(o, n) ==
    IF o.refusal.kind # "NONE"
    THEN /\ pc' = "rendered"
         /\ outcome' = o.refusal
         /\ UNCHANGED <<old, new>>
    ELSE IF n.refusal.kind # "NONE"
    THEN /\ pc' = "rendered"
         /\ outcome' = n.refusal
         /\ old' = o.parsed
         /\ new' = new
    ELSE /\ pc' = "loaded"
         /\ outcome' = outcome
         /\ old' = o.parsed
         /\ new' = n.parsed

\* orchestrator::run up to its call of run_key_mode or run_row_order: the
\* key identifier is parsed, then the old file, then the new file.
Load ==
    /\ pc = "args"
    /\ IF KeyBytes.err # ""
       THEN pc' = "error" /\ UNCHANGED <<old, new, outcome>>
       ELSE \E old_orders \in ModeOrders(corpus.old.lines),
               new_orders \in ModeOrders(corpus.new.lines) :
               Loaded(parse_csv(corpus.old, "Old", args.delimiter, old_orders),
                      parse_csv(corpus.new, "New", args.delimiter, new_orders))
    /\ UNCHANGED <<build, args, corpus, cells, accumulator, top, decision,
                   exit>>

\* The iteration orders of the key maps of run_key_mode.
JoinOrders(file) ==
    IF args.has_key THEN KeyOrders(KeyMapOf(file, KeyBytes.bytes).entries)
    ELSE {<<>>}

\* run_key_mode or run_row_order with the key maps iterated in the given
\* orders.
Align(old_order, new_order) ==
    IF args.has_key
    THEN run_key_mode(KeyBytes.bytes, old, new, old_order, new_order)
    ELSE run_row_order(old, new)

\* What the run holds when run_diff has refused before its diff loops.
Refuse(refusal) ==
    [pc |-> "rendered", cells |-> <<>>, accumulator |-> NewAccumulator,
     top |-> <<>>, decision |-> NoChange, outcome |-> refusal, exit |-> -1]

\* run_diff after sort_contributors: evaluate_coverage, the shuffle guard
\* and the rendering.
Decide(cs, acc, top_items, coverage) ==
    [pc |-> "rendered", cells |-> cs, accumulator |-> acc, top |-> top_items,
     decision |-> coverage,
     outcome |-> Guarded(args.has_key,
                         detect_shuffle(old.headers, new.headers,
                                        old.records, new.records),
                         coverage, acc, cs, top_items, args.tolerance),
     exit |-> -1]

\* run_diff after its diff loops, into_vec having returned v.
Observed(cs, acc, v) ==
    IF acc.panicked
    THEN [pc |-> "panicked", cells |-> cs, accumulator |-> acc, top |-> <<>>,
          decision |-> NoChange, outcome |-> NoOutcome, exit |-> PanicExit]
    ELSE Decide(cs, acc, sort_contributors(v),
                evaluate_coverage(Contributions(sort_contributors(v)),
                                  acc.total_change, args.threshold))

\* run_diff through its diff loops: the refusal, or the cells and the
\* accumulator.
Diff(prepared) ==
    [refusal |-> prepared.refusal,
     cells |-> prepared.cells,
     acc |-> DiffLoop(prepared.cells, Len(prepared.cells), NewAccumulator,
                      build, args.tolerance)]

\* run_diff on the aligned rows, through its diff loops.
RunDiff(alignment) ==
    IF alignment.refusal.kind # "NONE"
    THEN [refusal |-> alignment.refusal, cells |-> <<>>,
          acc |-> NewAccumulator]
    ELSE Diff(Prepare(alignment.rows, old.headers, new.headers,
                      KeyBytes.bytes))

\* What the run holds after run_diff, into_vec having returned v.
Result(diff, v) ==
    IF diff.refusal.kind # "NONE" THEN Refuse(diff.refusal)
    ELSE Observed(diff.cells, diff.acc, v)

Becomes(r) ==
    /\ pc' = r.pc
    /\ cells' = r.cells
    /\ accumulator' = r.accumulator
    /\ top' = r.top
    /\ decision' = r.decision
    /\ outcome' = r.outcome
    /\ exit' = r.exit

\* The rest of run_diff for every order into_vec may return.
Finish(diff) == \E v \in IntoVec(diff.acc.top) : Becomes(Result(diff, v))

\* run_key_mode or run_row_order, and run_diff: alignment, column typing,
\* the diff loops, into_vec, sort_contributors, evaluate_coverage, the
\* shuffle guard and the rendering of the outcome.
Compare ==
    /\ pc = "loaded"
    /\ \E old_order \in JoinOrders(old), new_order \in JoinOrders(new) :
        Finish(RunDiff(Align(old_order, new_order)))
    /\ UNCHANGED <<build, args, corpus, old, new>>

\* The end of lib::run: the output is written and flushed, and the exit
\* code of the outcome returned; a failed write goes to main as an error.
Emit ==
    /\ pc = "rendered"
    /\ \E written \in BOOLEAN :
        IF written THEN pc' = "done" /\ exit' = exit_code(outcome)
        ELSE pc' = "error" /\ exit' = exit
    /\ UNCHANGED <<build, args, corpus, old, new, cells, accumulator, top,
                   decision, outcome>>

\* The Err arm of main: eprintln!, which panics when stderr cannot be
\* written, then exit code 2.
ReportError ==
    /\ pc = "error"
    /\ \E printed \in BOOLEAN :
        IF printed THEN pc' = "failed" /\ exit' = 2
        ELSE pc' = "panicked" /\ exit' = PanicExit
    /\ UNCHANGED <<build, args, corpus, old, new, cells, accumulator, top,
                   decision, outcome>>

Next == ParseArgs \/ Load \/ Compare \/ Emit \/ ReportError

Spec == Init /\ [][Next]_vars

\* ---------------------------------------------------- properties: a run

\* The run has an outcome to write, or has written it.
Answered == pc \in {"rendered", "done"}

\* Both files were parsed, and the outcome comes from comparing them.
Compared == Answered /\ old # NoFile /\ new # NoFile

\* The run is over.
Terminated == pc \in {"done", "usage", "failed", "panicked"}

\* C1: every run ends with exit code 0, 1 or 2: 0 exactly when the verdict
\* is NO REAL CHANGE, 1 exactly when it is REAL CHANGE, 2 for every refusal
\* and for every argument or process error.
C1_ExitCodes ==
    Terminated =>
        /\ exit \in {0, 1, 2}
        /\ pc = "done" =>
            /\ exit = 0 <=> outcome.kind = "NO_REAL_CHANGE"
            /\ exit = 1 <=> outcome.kind = "REAL_CHANGE"
            /\ exit = 2 <=> outcome.kind = "REFUSAL"
        /\ pc \in {"usage", "failed"} => exit = 2

\* The ASCII-trimmed values of a column of a parsed file.
ColumnValues(file, name) ==
    [i \in 1..Len(file.records) |->
        ascii_trim(Field(file.records[i], Position(file.headers, name)))]

\* No value is empty and no value occurs twice.
AllDistinct(values) ==
    /\ \A i \in 1..Len(values) : values[i] # <<>>
    /\ \A i, j \in 1..Len(values) : i # j => values[i] # values[j]

ValueSet(values) == {values[i] : i \in 1..Len(values)}

CommonNames ==
    {old.headers[i] : i \in 1..Len(old.headers)}
    \cap {new.headers[i] : i \in 1..Len(new.headers)}

\* The columns that could serve as a key in both files.
UsableNames ==
    {name \in CommonNames :
        /\ AllDistinct(ColumnValues(old, name))
        /\ AllDistinct(ColumnValues(new, name))}

\* The perfect key candidates: usable, with the same values in both files.
PerfectNames ==
    {name \in UsableNames :
        ValueSet(ColumnValues(old, name)) = ValueSet(ColumnValues(new, name))}

\* The joinable candidates that are not perfect.
JoinableNames == UsableNames \ PerfectNames

\* The names the guard suggests: perfect candidates, then joinable ones,
\* each in the order of the old header, at most three.
ExpectedSuggestions ==
    LET ranked == SelectSeq(old.headers, LAMBDA h : h \in PerfectNames)
                  \o SelectSeq(old.headers, LAMBDA h : h \in JoinableNames)
    IN  SubSeq(ranked, 1, IF Len(ranked) < 3 THEN Len(ranked) ELSE 3)

\* Some perfect candidate has another value sequence in new than in old.
PerfectKeyReordered ==
    \E name \in PerfectNames :
        ColumnValues(old, name) # ColumnValues(new, name)

Count(lines, line) == Cardinality({i \in 1..Len(lines) : lines[i] = line})

\* The new file holds the header and the data lines of the old file, the
\* data lines in another order.
SameRowsReordered ==
    /\ corpus.old.fault = "" /\ corpus.new.fault = ""
    /\ Len(corpus.old.lines) = Len(corpus.new.lines)
    /\ Len(corpus.old.lines) > 0
    /\ corpus.old.lines[1] = corpus.new.lines[1]
    /\ \A i \in 1..Len(corpus.old.lines) :
           Count(corpus.old.lines, corpus.old.lines[i])
               = Count(corpus.new.lines, corpus.old.lines[i])
    /\ corpus.old.lines # corpus.new.lines

IsNeedKey == outcome.kind = "REFUSAL" /\ outcome.code = "E_NEED_KEY"

\* C6 as stated: under row-order alignment, for every reordering of the
\* same rows in the new file with a perfect key candidate, the outcome is
\* REFUSAL E_NEED_KEY.
C6_ReorderIsRefused ==
    (Compared /\ ~args.has_key /\ SameRowsReordered /\ PerfectNames # {})
        => IsNeedKey

\* C6 amended: under row-order alignment, for every reordering of the same
\* rows in the new file with a perfect key candidate, the outcome is never
\* REAL CHANGE and never E_DIFFUSE: it is E_NEED_KEY when the diff finds
\* total_change > 0, NO REAL CHANGE when it finds none, and otherwise a
\* refusal of the column typing.
C6_ReorderNeverAttributed ==
    (Compared /\ ~args.has_key /\ SameRowsReordered /\ PerfectNames # {})
        => /\ outcome.kind # "REAL_CHANGE"
           /\ accumulator.total_change > 0 <=> IsNeedKey
           /\ outcome.kind = "NO_REAL_CHANGE" => accumulator.total_change = 0
           /\ (outcome.kind = "REFUSAL" /\ ~IsNeedKey) =>
                  outcome.code \in {"E_NO_NUMERIC", "E_MIXED_TYPES",
                                    "E_MISSINGNESS"}

C6_Witness ==
    /\ pc = "done" /\ ~args.has_key /\ old # NoFile /\ new # NoFile
    /\ SameRowsReordered /\ PerfectNames # {}
    /\ IsNeedKey

\* C7: in row-order mode, whenever the diff reaches total_change > 0 and a
\* perfect key candidate has another ASCII-trimmed value sequence in new
\* than in old, the outcome is REFUSAL E_NEED_KEY and its suggested_keys are
\* the first three candidate names, perfect ones first, then joinable ones,
\* each in header order.
C7_ShuffleGuard ==
    (Compared /\ ~args.has_key /\ accumulator.total_change > 0
     /\ PerfectKeyReordered)
        => /\ IsNeedKey
           /\ outcome.suggested_keys = ExpectedSuggestions

C7_Witness ==
    /\ pc = "done" /\ ~args.has_key /\ old # NoFile /\ new # NoFile
    /\ accumulator.total_change > 0
    /\ PerfectKeyReordered
    /\ JoinableNames # {}
    /\ Len(outcome.suggested_keys) = 3

SomeOrder(orders) == CHOOSE o \in orders : TRUE

\* parse_csv of the two files with the histograms iterated in one order.
ParsedOld ==
    parse_csv(corpus.old, "Old", args.delimiter,
              SomeOrder(ModeOrders(corpus.old.lines)))
ParsedNew ==
    parse_csv(corpus.new, "New", args.delimiter,
              SomeOrder(ModeOrders(corpus.new.lines)))

\* The rest of run_diff with into_vec returning one order.
ResultInSomeOrder(diff) == Result(diff, SomeOrder(IntoVec(diff.acc.top)))

\* run_key_mode or run_row_order and run_diff with the key maps and the
\* heap iterated in one order.
Reference ==
    ResultInSomeOrder(RunDiff(Align(SomeOrder(JoinOrders(old)),
                                    SomeOrder(JoinOrders(new)))))

\* C10: two runs on the same inputs produce the same output: what a run
\* parses, retains and renders does not depend on the iteration order of
\* the hash maps of the key join, of the key-set comparison and of the
\* dialect field-count histogram, nor on the order the heap is emptied in.
C10_Deterministic ==
    /\ pc = "loaded" => old = ParsedOld.parsed /\ new = ParsedNew.parsed
    /\ (Answered /\ old = NoFile) => outcome = ParsedOld.refusal
    /\ (Answered /\ old # NoFile /\ new = NoFile) =>
           /\ old = ParsedOld.parsed
           /\ outcome = ParsedNew.refusal
    /\ Compared =>
           /\ outcome = Reference.outcome
           /\ top = Reference.top
           /\ decision = Reference.decision
    /\ (pc = "panicked" /\ accumulator.panicked) => Reference.pc = "panicked"

C10_Witness ==
    /\ pc = "done" /\ args.has_key
    /\ outcome.kind = "REAL_CHANGE"
    /\ Len(outcome.contributors) >= 2
    /\ Cardinality(JoinOrders(old)) >= 2

\* ------------------------------------- JoinSpec: the key join of two files

\* The keys the files of JoinSpec carry, in the order they are written.
JoinKeys == <<B_d, B_c, B_b, B_a>>

\* The data records of a file that carries the chosen keys: in written or
\* in reverse order, the key a padded with a blank or not.
JoinRecords(chosen, padded, reversed, value) ==
    [i \in 1..Len(chosen) |->
        LET key == JoinKeys[chosen[IF reversed THEN Len(chosen) + 1 - i ELSE i]]
        IN  <<IF padded /\ key = B_a THEN B_sp_a ELSE key, value>>]

\* The parsed files of JoinSpec whose value column holds value.
JoinFiles(value) ==
    {[delimiter |-> 44, headers |-> <<B_id, B_v>>,
      records |-> JoinRecords(SelectSeq(<<1, 2, 3, 4>>, LAMBDA i : i \in S),
                              padded, reversed, value)] :
        S \in SUBSET (1..4), padded \in BOOLEAN, reversed \in BOOLEAN}

JoinInit ==
    /\ pc = "parsed"
    /\ build = "release"
    /\ args = [valid |-> TRUE, threshold |-> One, tolerance |-> 0,
               has_key |-> TRUE, key |-> B_id, delimiter |-> 0]
    /\ corpus = [old |-> NoInput, new |-> NoInput]
    /\ old \in JoinFiles(B_0)
    /\ new \in JoinFiles(B_1)
    /\ cells = <<>>
    /\ accumulator = NewAccumulator
    /\ top = <<>>
    /\ decision = NoChange
    /\ outcome = NoOutcome
    /\ exit = -1

\* run_key_mode up to run_diff, the two key maps iterated in some order.
JoinFilesByKey ==
    /\ pc = "parsed"
    /\ \E old_order \in KeyOrders(KeyMapOf(old, args.key).entries),
          new_order \in KeyOrders(KeyMapOf(new, args.key).entries) :
           outcome' = run_key_mode(args.key, old, new, old_order, new_order)
    /\ pc' = "joined"
    /\ UNCHANGED <<build, args, corpus, old, new, cells, accumulator, top,
                   decision, exit>>

JoinNext == JoinFilesByKey

JoinSpec == JoinInit /\ [][JoinNext]_vars

\* ---------------------------------------------- properties of the key join

\* The ASCII-trimmed keys of a parsed file.
TrimmedKeys(file) ==
    {ascii_trim(file.records[i][1]) : i \in 1..Len(file.records)}

\* s lists, in ascending byte order, the n smallest members of S (all of S
\* when S has fewer).
IsSmallest(s, S, n) ==
    /\ Len(s) = (IF Cardinality(S) > n THEN n ELSE Cardinality(S))
    /\ \A i \in 1..Len(s) : s[i] \in S
    /\ \A i, j \in 1..Len(s) : i < j => BytesLess(s[i], s[j])
    /\ \A k \in S : (\A i \in 1..Len(s) : s[i] # k) =>
           \A i \in 1..Len(s) : BytesLess(s[i], k)

\* row pairs the record of old and the record of new that carry its key.
PairsKey(row) ==
    /\ row.id.kind = "key"
    /\ row.old_record \in 1..Len(old.records)
    /\ row.new_record \in 1..Len(new.records)
    /\ row.old = old.records[row.old_record]
    /\ row.new = new.records[row.new_record]
    /\ ascii_trim(row.old[1]) = row.id.key
    /\ ascii_trim(row.new[1]) = row.id.key

\* C11: in key mode the join succeeds exactly when old and new have the
\* same set of ASCII-trimmed keys; the aligned rows then hold every key
\* once, pair the old and the new record that carry it, and ascend in key
\* byte order; otherwise the refusal is E_KEY_MISMATCH with the full counts
\* of the keys only in old and only in new and, as samples, the at most
\* MAX_SAMPLES smallest of each in byte order.
C11_KeyJoin ==
    pc = "joined" =>
        /\ (outcome.refusal = NoOutcome) <=> (TrimmedKeys(old) = TrimmedKeys(new))
        /\ outcome.refusal = NoOutcome =>
               /\ Len(outcome.rows) = Cardinality(TrimmedKeys(old))
               /\ \A i \in 1..Len(outcome.rows) : PairsKey(outcome.rows[i])
               /\ \A i, j \in 1..Len(outcome.rows) :
                      i < j => BytesLess(outcome.rows[i].id.key,
                                         outcome.rows[j].id.key)
        /\ outcome.refusal # NoOutcome =>
               /\ outcome.refusal.code = "E_KEY_MISMATCH"
               /\ outcome.rows = <<>>
               /\ outcome.refusal.detail[1] =
                      Cardinality(TrimmedKeys(old) \ TrimmedKeys(new))
               /\ outcome.refusal.detail[2] =
                      Cardinality(TrimmedKeys(new) \ TrimmedKeys(old))
               /\ IsSmallest(outcome.refusal.detail[3],
                             TrimmedKeys(old) \ TrimmedKeys(new), MAX_SAMPLES)
               /\ IsSmallest(outcome.refusal.detail[4],
                             TrimmedKeys(new) \ TrimmedKeys(old), MAX_SAMPLES)

\* A mismatch whose missing keys are truncated, next to extra keys.
C11_Witness ==
    /\ pc = "joined"
    /\ outcome.refusal # NoOutcome
    /\ outcome.refusal.detail[1] > MAX_SAMPLES
    /\ Len(outcome.refusal.detail[3]) = MAX_SAMPLES
    /\ outcome.refusal.detail[2] = 1

\* ------------------------------------------- properties of the key maps

\* A run in key mode that parsed both files and found the key column in both.
KeyedRun ==
    /\ Compared
    /\ args.has_key
    /\ \E i \in 1..Len(old.headers) : old.headers[i] = KeyBytes.bytes
    /\ \E i \in 1..Len(new.headers) : new.headers[i] = KeyBytes.bytes

\* The ASCII-trimmed key of the n-th data record of a file.
TrimmedKeyAt(file, n) ==
    ascii_trim(file.records[n][CHOOSE i \in 1..Len(file.headers) :
                                  /\ file.headers[i] = KeyBytes.bytes
                                  /\ \A j \in 1..(i - 1) :
                                         file.headers[j] # KeyBytes.bytes])

\* The n-th record has an empty key or the key of an earlier record.
Offends(file, n) ==
    \/ TrimmedKeyAt(file, n) = <<>>
    \/ \E m \in 1..(n - 1) : TrimmedKeyAt(file, m) = TrimmedKeyAt(file, n)

\* The number of the first offending record of a file; 0 when there is none.
FirstOffender(file) ==
    IF \E n \in 1..Len(file.records) : Offends(file, n)
    THEN CHOOSE n \in 1..Len(file.records) :
             Offends(file, n) /\ \A m \in 1..(n - 1) : ~Offends(file, m)
    ELSE 0

\* The outcome is the key refusal the first offending record of file calls for.
RefusedForOffender(file, side) ==
    IF TrimmedKeyAt(file, FirstOffender(file)) = <<>>
    THEN /\ outcome.code = "E_KEY_EMPTY"
         /\ outcome.detail = <<side, FirstOffender(file)>>
    ELSE /\ outcome.code = "E_KEY_DUP"
         /\ outcome.detail = <<side, FirstOffender(file),
                               TrimmedKeyAt(file, FirstOffender(file))>>

\* C12: while a key map is built in record order the first offending
\* record decides the refusal: E_KEY_EMPTY with its number when its trimmed
\* key is empty, E_KEY_DUP with its number (the later of the two records)
\* and the key when an earlier record has the same trimmed key; a key error
\* of old is reported before any key error of new.
C12_FirstKeyErrorDecides ==
    (Answered /\ KeyedRun) =>
        IF FirstOffender(old) # 0 THEN RefusedForOffender(old, "Old")
        ELSE IF FirstOffender(new) # 0 THEN RefusedForOffender(new, "New")
        ELSE outcome.code \notin {"E_KEY_EMPTY", "E_KEY_DUP"}

\* Old repeats a key in its second record while new has an empty key.
C12_Witness ==
    /\ Answered /\ KeyedRun
    /\ FirstOffender(old) = 2
    /\ TrimmedKeyAt(old, 2) # <<>>
    /\ FirstOffender(new) # 0
    /\ TrimmedKeyAt(new, FirstOffender(new)) = <<>>
    /\ outcome.code = "E_KEY_DUP"

\* ------------------------------------------ properties of row-order runs

\* A run without --key that parsed both files.
RowOrderRun == Compared /\ ~args.has_key

\* The lines of a comma-separated file, after its header, that hold more
\* than commas and blanks.
DataLines(input) ==
    SelectSeq(Tail(input.lines),
              LAMBDA line : \E i \in 1..Len(line) : line[i] \notin {44, 32, 9})

\* The number a cell of the named column has in the i-th data line of a
\* file with the given headers.
ValueInLine(input, headers, i, name) ==
    parse_numeric(Field(Split(DataLines(input)[i], 44),
                        CHOOSE c \in 1..Len(headers) : headers[c] = name)).value

\* The cell compares the i-th data line of old with the i-th of new, i
\* being its row id.
PairsByIndex(cell) ==
    /\ cell.id.row_id.kind = "row_index"
    /\ cell.id.row_id.index \in 1..Len(DataLines(corpus.old))
    /\ cell.old = ValueInLine(corpus.old, old.headers,
                              cell.id.row_id.index, cell.id.column)
    /\ cell.new = ValueInLine(corpus.new, new.headers,
                              cell.id.row_id.index, cell.id.column)

\* C13: without --key the i-th non-blank data record of old is paired with
\* the i-th of new under the row id i; when the two files have different
\* numbers of non-blank data records the outcome is E_ROWCOUNT with both
\* counts, and no column was typed and no cell compared.
C13_RowOrderPairing ==
    RowOrderRun =>
        IF Len(DataLines(corpus.old)) # Len(DataLines(corpus.new))
        THEN /\ outcome.code = "E_ROWCOUNT"
             /\ outcome.detail = <<Len(DataLines(corpus.old)),
                                   Len(DataLines(corpus.new))>>
             /\ cells = <<>>
        ELSE /\ outcome.code # "E_ROWCOUNT"
             /\ \A c \in 1..Len(cells) : PairsByIndex(cells[c])

\* Cells were compared although a blank record precedes a data record in
\* only one of the files.
C13_Witness ==
    /\ RowOrderRun
    /\ Len(cells) = 1
    /\ cells[1].old # cells[1].new
    /\ Len(corpus.old.lines) # Len(corpus.new.lines)

\* --------------------------- TypingSpec: column typing of two parsed files

\* The (old, new) values of a cell of column v: numeric, text or missing on
\* either side.
TypedPairs == {B_1, B_x, B_empty} \X {B_1, B_x, B_empty}

\* The (old, new) records of an aligned row: any pair in column v, a
\* numeric or a text pair in column x.
TypedRows ==
    {<<<<p[1], q[1]>>, <<p[2], q[2]>>>> :
        p \in TypedPairs, q \in {<<B_1, B_1>>, <<B_x, B_x>>}}

TypingInit ==
    /\ pc = "loaded"
    /\ build = "release"
    /\ args = [valid |-> TRUE, threshold |-> One, tolerance |-> 0,
               has_key |-> FALSE, key |-> <<>>, delimiter |-> 0]
    /\ corpus = [old |-> NoInput, new |-> NoInput]
    /\ \E n \in 0..MaxTypedRows :
        \E rows \in [1..n -> TypedRows] :
            /\ old = [delimiter |-> 44, headers |-> <<B_v, B_x>>,
                      records |-> [i \in 1..n |-> rows[i][1]]]
            /\ new = [delimiter |-> 44, headers |-> <<B_v, B_x>>,
                      records |-> [i \in 1..n |-> rows[i][2]]]
    /\ cells = <<>>
    /\ accumulator = NewAccumulator
    /\ top = <<>>
    /\ decision = NoChange
    /\ outcome = NoOutcome
    /\ exit = -1

TypingNext == Compare

TypingSpec == TypingInit /\ [][TypingNext]_vars

\* ------------------------------------------ properties of column typing

\* The positions of the row-major scan over the rows and columns of two
\* files with the same headers, aligned in row order.
ScanPositions == 1..(Len(old.records) * Len(old.headers))
ScanRow(p) == ((p - 1) \div Len(old.headers)) + 1
ScanColumn(p) == ((p - 1) % Len(old.headers)) + 1

IsText(value) == ~is_missing_token(value) /\ ~parse_numeric(value).some
IsNumber(value) == ~is_missing_token(value) /\ parse_numeric(value).some

\* Both sides of the pair in row r, column c are numeric.
NumericPair(r, c) ==
    IsNumber(old.records[r][c]) /\ IsNumber(new.records[r][c])

\* The pair holds a value that is neither numeric nor missing.
TextPair(r, c) == IsText(old.records[r][c]) \/ IsText(new.records[r][c])

\* One side of the pair is missing and the other numeric.
MissingPair(r, c) ==
    \/ is_missing_token(old.records[r][c]) /\ IsNumber(new.records[r][c])
    \/ IsNumber(old.records[r][c]) /\ is_missing_token(new.records[r][c])

\* The side and the value of the non-numeric of a text pair.
TextOf(r, c) ==
    IF IsText(old.records[r][c]) THEN <<"Old", old.records[r][c]>>
    ELSE <<"New", new.records[r][c]>>

\* With the pair at p its column holds a numeric pair and a text pair.
MixedAt(p) ==
    \/ /\ NumericPair(ScanRow(p), ScanColumn(p))
       /\ \E r \in 1..(ScanRow(p) - 1) : TextPair(r, ScanColumn(p))
    \/ /\ TextPair(ScanRow(p), ScanColumn(p))
       /\ \E r \in 1..(ScanRow(p) - 1) : NumericPair(r, ScanColumn(p))

RefusingAt(p) == MixedAt(p) \/ MissingPair(ScanRow(p), ScanColumn(p))

\* No cell before position p refuses.
FirstRefusing(p) == \A q \in 1..(p - 1) : ~RefusingAt(q)

\* The first row of column c that holds a text pair.
FirstTextRow(c) ==
    CHOOSE r \in 1..Len(old.records) :
        TextPair(r, c) /\ \A m \in 1..(r - 1) : ~TextPair(m, c)

\* The row E_MIXED_TYPES names when the scan stops at p: the first text
\* pair of the column when a numeric pair completes the mix, else the
\* current row.
NamedRow(p) ==
    IF NumericPair(ScanRow(p), ScanColumn(p)) THEN FirstTextRow(ScanColumn(p))
    ELSE ScanRow(p)

\* The outcome is a typing refusal with the given code, side, record,
\* column and value.
TypingRefusal(code, side, record, c, value) ==
    /\ outcome.code = code
    /\ SubSeq(outcome.detail, 1, 4) = <<side, record, old.headers[c], value>>

\* C14: when a column comes to hold both a numeric pair and a pair with a
\* non-numeric, non-missing value, and no earlier cell of the row-major
\* scan refused, the outcome is E_MIXED_TYPES for that column; it names the
\* first recorded non-numeric (record, side, value) when the non-numeric
\* came first, and the current row's non-numeric when the numeric pair
\* came first.
C14_MixedTypes ==
    (pc = "rendered" /\ RowOrderRun) =>
        \A p \in ScanPositions :
            (MixedAt(p) /\ FirstRefusing(p)) =>
                TypingRefusal("E_MIXED_TYPES",
                              TextOf(NamedRow(p), ScanColumn(p))[1],
                              NamedRow(p), ScanColumn(p),
                              TextOf(NamedRow(p), ScanColumn(p))[2])

\* Two text pairs come before the numeric pair; the first one is named.
C14_Witness ==
    /\ pc = "rendered" /\ RowOrderRun
    /\ Len(old.records) = 3
    /\ TextPair(1, 1) /\ TextPair(2, 1) /\ NumericPair(3, 1)
    /\ TextOf(1, 1)[1] = "New" /\ TextOf(2, 1)[1] = "Old"
    /\ outcome.code = "E_MIXED_TYPES"
    /\ outcome.detail[2] = 1

\* The value and the side E_MISSINGNESS names for a missing pair: the
\* side that holds the number.
PresentOf(r, c) ==
    IF is_missing_token(old.records[r][c]) THEN <<"New", new.records[r][c]>>
    ELSE <<"Old", old.records[r][c]>>

\* C15 as stated: the first pair of the row-major scan with one side
\* missing and the other numeric gives E_MISSINGNESS naming the side that
\* holds the value, its record, the column and the value, whatever else
\* the column contains.
C15_FirstMissingPairRefuses ==
    (pc = "rendered" /\ RowOrderRun) =>
        \A p \in ScanPositions :
            (/\ MissingPair(ScanRow(p), ScanColumn(p))
             /\ \A q \in 1..(p - 1) : ~MissingPair(ScanRow(q), ScanColumn(q)))
            => TypingRefusal("E_MISSINGNESS",
                             PresentOf(ScanRow(p), ScanColumn(p))[1],
                             ScanRow(p), ScanColumn(p),
                             PresentOf(ScanRow(p), ScanColumn(p))[2])

\* C15, amended: the first pair of the row-major scan with one side
\* missing and the other numeric gives E_MISSINGNESS naming the side that
\* holds the value, its record, the column and the value, whatever the
\* column held before, unless an earlier cell of the scan was refused with
\* E_MIXED_TYPES.
C15_MissingPairRefusesWhenReached ==
    (pc = "rendered" /\ RowOrderRun) =>
        \A p \in ScanPositions :
            (MissingPair(ScanRow(p), ScanColumn(p)) /\ FirstRefusing(p))
            => TypingRefusal("E_MISSINGNESS",
                             PresentOf(ScanRow(p), ScanColumn(p))[1],
                             ScanRow(p), ScanColumn(p),
                             PresentOf(ScanRow(p), ScanColumn(p))[2])

\* A missing pair refuses in a column that already holds a numeric pair
\* and, in its other column, text.
C15_Witness ==
    /\ pc = "rendered" /\ RowOrderRun
    /\ Len(old.records) = 3
    /\ NumericPair(1, 1) /\ NumericPair(2, 1) /\ MissingPair(3, 1)
    /\ TextPair(1, 2)
    /\ outcome.code = "E_MISSINGNESS"
    /\ outcome.detail[1] = "Old"

\* --------------------------------------- properties of the stage order

ParseCodes == {"E_IO", "E_ENCODING", "E_CSV_PARSE", "E_DIALECT", "E_HEADERS"}

AlignmentCodes ==
    {"E_NO_KEY", "E_KEY_EMPTY", "E_KEY_DUP", "E_KEY_MISMATCH", "E_ROWCOUNT"}

TypingCodes == {"E_MIXED_TYPES", "E_MISSINGNESS"}

\* The refusal an unusable file calls for.
FaultCode(fault) ==
    CASE fault = "Io" -> "E_IO"
      [] fault = "Encoding" -> "E_ENCODING"
      [] fault = "CsvParse" -> "E_CSV_PARSE"

\* No stage after the parsing of the files has left a trace.
NothingCompared ==
    /\ cells = <<>>
    /\ accumulator = NewAccumulator
    /\ top = <<>>
    /\ decision = NoChange

\* The refusal rendered belongs to the first stage that refuses, and the
\* stages after it did not run.
RefusalStages ==
    Answered =>
        /\ corpus.old.fault # "" =>
               /\ outcome.code = FaultCode(corpus.old.fault)
               /\ outcome.detail[1] = "Old"
        /\ (old # NoFile /\ corpus.new.fault # "") =>
               /\ outcome.code = FaultCode(corpus.new.fault)
               /\ outcome.detail[1] = "New"
        /\ outcome.code \in ParseCodes =>
               /\ outcome.detail[1] = "Old" => old = NoFile
               /\ outcome.detail[1] = "New" => old # NoFile
               /\ new = NoFile
               /\ NothingCompared
        /\ outcome.code \in AlignmentCodes \cup TypingCodes \cup {"E_NO_NUMERIC"}
               => Compared /\ NothingCompared
        /\ (RowOrderRun /\ old.headers = new.headers
            /\ Len(old.records) = Len(new.records)
            /\ \E p \in ScanPositions : RefusingAt(p))
               => outcome.code \in TypingCodes
        /\ outcome.code = "E_NEED_KEY" =>
               Compared /\ ~args.has_key /\ accumulator.total_change > 0
        /\ outcome.code = "E_DIFFUSE" =>
               /\ Compared /\ decision.kind = "Diffuse"
               /\ args.has_key \/ ~PerfectKeyReordered
        /\ outcome.kind # "REFUSAL" => Compared

\* A run that has parsed both files renders one outcome, and an outcome
\* once rendered stays.
OneOutput ==
    /\ pc = "loaded" => (pc' = "rendered" /\ outcome'.kind # "NONE")
    /\ outcome.kind # "NONE" => outcome' = outcome

\* C16: refusals are terminal: the stages run in the order parse old,
\* parse new, alignment, column typing, no-numeric check, diff, shuffle
\* guard, coverage decision; the first stage that refuses gives the one
\* refusal code, no later stage runs, and every run yields exactly one
\* complete output.
C16_RefusalsAreTerminal == []RefusalStages /\ [][OneOutput]_vars

\* The same for the runs of a release build.
RefusalsAreTerminalInRelease ==
    /\ [](build = "release" => RefusalStages)
    /\ [][build = "release" => OneOutput]_vars

\* ------------------------------ HeaderSpec: normalization of header lists

\* Header fields as read: plain, padded in front or behind, empty, blank,
\* and a name that normalization itself hands out.
HeaderFields ==
    {B_a, B_b, B_sp_a, <<97, 9>>, B_empty, <<32>>, <<32, 32>>, RvlCol(2)}

HeaderInit ==
    /\ pc = "read"
    /\ build = "release"
    /\ args = [valid |-> TRUE, threshold |-> One, tolerance |-> 0,
               has_key |-> FALSE, key |-> <<>>, delimiter |-> 44]
    /\ \E n \in 1..MaxHeaders :
        \E fields \in [1..n -> HeaderFields] :
            corpus = [old |-> [lines |-> <<WriteLine(fields)>>, fault |-> ""],
                      new |-> NoInput]
    /\ old = NoFile
    /\ new = NoFile
    /\ cells = <<>>
    /\ accumulator = NewAccumulator
    /\ top = <<>>
    /\ decision = NoChange
    /\ outcome = NoOutcome
    /\ exit = -1

\* What the step has after normalize_headers: the file with the normalized
\* headers, or the E_HEADERS refusal of a duplicate.
Normalized(result, next) ==
    IF result.err
    THEN /\ pc' = "duplicate"
         /\ outcome' = ParseFailure("E_HEADERS",
                            <<"Old", "Duplicate", result.name>>).refusal
         /\ new' = new
    ELSE /\ pc' = next
         /\ outcome' = outcome
         /\ new' = [delimiter |-> args.delimiter, headers |-> result.headers,
                    records |-> <<>>]

\* normalize_headers on the header record of the file.
NormalizeHeaders ==
    /\ pc = "read"
    /\ Normalized(normalize_headers(Split(corpus.old.lines[1], args.delimiter)),
                  "normalized")
    /\ UNCHANGED <<build, args, corpus, old, cells, accumulator, top,
                   decision, exit>>

\* normalize_headers on its own output; old keeps that output.
NormalizeAgain ==
    /\ pc = "normalized"
    /\ old' = new
    /\ Normalized(normalize_headers(new.headers), "renormalized")
    /\ UNCHANGED <<build, args, corpus, cells, accumulator, top, decision,
                   exit>>

HeaderNext == NormalizeHeaders \/ NormalizeAgain

HeaderSpec == HeaderInit /\ [][HeaderNext]_vars

\* C17: header normalization is idempotent: normalizing the output of a
\* normalization succeeds and yields that output again.
C17_NormalizeIdempotent ==
    /\ (pc = "duplicate") => old = NoFile
    /\ (pc = "renormalized") => new.headers = old.headers

\* Normalized twice: a list of a padded name, an empty one and a blank one.
C17_Witness ==
    /\ pc = "renormalized"
    /\ Len(new.headers) = 3
    /\ new.headers # Split(corpus.old.lines[1], args.delimiter)
    /\ \E i \in 1..3 : new.headers[i] = RvlCol(i)
    /\ \E i \in 1..3 : new.headers[i] = B_a

\* ------------------------------------------- format: identifier encodings

IsContinuation(b) == b >= 128 /\ b <= 191

\* std::str::from_utf8 succeeds: well-formed UTF-8 (no overlong form, no
\* surrogate, nothing above U+10FFFF).
RECURSIVE from_utf8_ok(_)
from_utf8_ok(bytes) ==
    IF bytes = <<>> THEN TRUE
    ELSE LET b == bytes[1]
             n == Len(bytes)
             Cont(i) == i <= n /\ IsContinuation(bytes[i])
             Rest(k) == from_utf8_ok(SubSeq(bytes, k + 1, n))
         IN  IF b <= 127 THEN Rest(1)
             ELSE IF b >= 194 /\ b <= 223 THEN Cont(2) /\ Rest(2)
             ELSE IF b = 224
             THEN n >= 2 /\ bytes[2] >= 160 /\ bytes[2] <= 191 /\ Cont(3) /\ Rest(3)
             ELSE IF b = 237
             THEN n >= 2 /\ bytes[2] >= 128 /\ bytes[2] <= 159 /\ Cont(3) /\ Rest(3)
             ELSE IF b >= 225 /\ b <= 239 THEN Cont(2) /\ Cont(3) /\ Rest(3)
             ELSE IF b = 240
             THEN n >= 2 /\ bytes[2] >= 144 /\ bytes[2] <= 191
                  /\ Cont(3) /\ Cont(4) /\ Rest(4)
             ELSE IF b >= 241 /\ b <= 243
             THEN Cont(2) /\ Cont(3) /\ Cont(4) /\ Rest(4)
             ELSE IF b = 244
             THEN n >= 2 /\ bytes[2] >= 128 /\ bytes[2] <= 143
                  /\ Cont(3) /\ Cont(4) /\ Rest(4)
             ELSE FALSE

contains_ascii_control(bytes) ==
    \E i \in 1..Len(bytes) : bytes[i] <= 31 \/ bytes[i] = 127

\* TABLE of hex_encode: the lowercase hex digits.
HexTable == <<48, 49, 50, 51, 52, 53, 54, 55, 56, 57, 97, 98, 99, 100, 101, 102>>

U8Prefix == <<117, 56, 58>>

HexPrefix == <<104, 101, 120, 58>>

\* Two lowercase hex digits per byte.
HexDigits(bytes) ==
    [i \in 1..(2 * Len(bytes)) |->
        IF i % 2 = 1 THEN HexTable[(bytes[(i + 1) \div 2] \div 16) + 1]
        ELSE HexTable[(bytes[i \div 2] % 16) + 1]]

hex_encode(bytes) == HexPrefix \o HexDigits(bytes)

\* The String returned, as its UTF-8 bytes.
encode_identifier_json(bytes) ==
    IF from_utf8_ok(bytes) /\ ~contains_ascii_control(bytes)
    THEN U8Prefix \o bytes
    ELSE hex_encode(bytes)

\* A human form that prints every clean UTF-8 identifier as it is.
render_as_is(bytes) ==
    IF from_utf8_ok(bytes) /\ ~contains_ascii_control(bytes) THEN bytes
    ELSE hex_encode(bytes)

render_identifier_human(bytes) ==
    IF from_utf8_ok(bytes)
    THEN IF contains_ascii_control(bytes) THEN hex_encode(bytes)
         ELSE IF StartsWith(bytes, U8Prefix) \/ StartsWith(bytes, HexPrefix)
         THEN U8Prefix \o bytes
         ELSE bytes
    ELSE hex_encode(bytes)

\* ------------------------------- IdentSpec: two identifiers, both encoded

\* Bytes of the identifiers: two controls, a digit, the two bytes of U+00A2
\* (each of them ill-formed alone or in the other order).
IdentBytes == {1, 127, 48, 194, 162}

RECURSIVE ByteStrings(_)
ByteStrings(n) ==
    IF n = 0 THEN {<<>>}
    ELSE ByteStrings(n - 1)
         \cup {Append(s, b) : s \in ByteStrings(n - 1), b \in IdentBytes}

\* Identifiers: the byte strings, each of them behind "u8:" and "hex:",
\* and the text of each one's hex form.
Identifiers ==
    LET free == ByteStrings(MaxIdentLen)
    IN  free \cup {U8Prefix \o s : s \in free}
             \cup {HexPrefix \o s : s \in free}
             \cup {hex_encode(s) : s \in free}

IdentInit ==
    /\ pc = "named"
    /\ build = "release"
    /\ args = [valid |-> TRUE, threshold |-> One, tolerance |-> 0,
               has_key |-> FALSE, key |-> <<>>, delimiter |-> 0]
    /\ corpus = [old |-> NoInput, new |-> NoInput]
    /\ \E first \in Identifiers, second \in Identifiers :
        /\ old = [NoFile EXCEPT !.headers = <<first>>]
        /\ new = [NoFile EXCEPT !.headers = <<second>>]
    /\ cells = <<>>
    /\ accumulator = NewAccumulator
    /\ top = <<>>
    /\ decision = NoChange
    /\ outcome = NoOutcome
    /\ exit = -1

\* Both identifiers in the JSON form.
EncodeJson ==
    /\ pc = "named"
    /\ pc' = "json"
    /\ outcome' = [NoOutcome EXCEPT !.detail =
                       <<encode_identifier_json(old.headers[1]),
                         encode_identifier_json(new.headers[1])>>]
    /\ UNCHANGED <<build, args, corpus, old, new, cells, accumulator, top,
                   decision, exit>>

\* Both identifiers in the human form.
RenderHuman ==
    /\ pc = "named"
    /\ pc' = "human"
    /\ outcome' = [NoOutcome EXCEPT !.detail =
                       <<render_identifier_human(old.headers[1]),
                         render_identifier_human(new.headers[1])>>]
    /\ UNCHANGED <<build, args, corpus, old, new, cells, accumulator, top,
                   decision, exit>>

IdentNext == EncodeJson \/ RenderHuman

IdentSpec == IdentInit /\ [][IdentNext]_vars

\* C18: within each form, two distinct identifiers are written as two
\* distinct strings.
C18_EncodingInjective ==
    (pc \in {"json", "human"} /\ old.headers # new.headers)
        => outcome.detail[1] # outcome.detail[2]

\* The human form of the byte 0x01 next to that of the text "hex:01", and
\* the JSON form of a clean identifier next to that of an ill-formed one.
C18_Witness ==
    \/ /\ pc = "human"
       /\ old.headers = <<(<<1>>)>>
       /\ new.headers = <<hex_encode(<<1>>)>>
       /\ outcome.detail = <<hex_encode(<<1>>), U8Prefix \o hex_encode(<<1>>)>>
    \/ /\ pc = "json"
       /\ old.headers = <<(<<194, 162>>)>>
       /\ new.headers = <<(<<162, 194>>)>>
       /\ outcome.detail[1] = U8Prefix \o <<194, 162>>
       /\ outcome.detail[2] = HexPrefix \o <<97, 50, 99, 50>>

\* ------------------------------------------------------------ csv/input.rs

UTF8_BOM == <<239, 187, 191>>

UTF16_BE_BOM == <<254, 255>>

UTF16_LE_BOM == <<255, 254>>

UTF32_BE_BOM == <<0, 0, 254, 255>>

UTF32_LE_BOM == <<255, 254, 0, 0>>

\* [..input[3..]] and the flag of strip_utf8_bom.
strip_utf8_bom(input) ==
    IF StartsWith(input, UTF8_BOM)
    THEN [stripped |-> SubSeq(input, Len(UTF8_BOM) + 1, Len(input)), had |-> TRUE]
    ELSE [stripped |-> input, had |-> FALSE]

\* The four slice patterns of the matches! in has_utf16_or_utf32_bom.
has_utf16_or_utf32_bom(input) ==
    \/ (Len(input) >= 4 /\ SubSeq(input, 1, 4) = <<0, 0, 254, 255>>)
    \/ (Len(input) >= 4 /\ SubSeq(input, 1, 4) = <<255, 254, 0, 0>>)
    \/ (Len(input) >= 2 /\ SubSeq(input, 1, 2) = <<254, 255>>)
    \/ (Len(input) >= 2 /\ SubSeq(input, 1, 2) = <<255, 254>>)

Min(a, b) == IF a <= b THEN a ELSE b

\* input.iter().take(NUL_SCAN_LIMIT).any(|byte| *byte == 0)
has_nul_in_first_8k(input) ==
    \E i \in 1..Min(Len(input), NUL_SCAN_LIMIT) : input[i] = 0

\* A guard that strips the UTF-8 BOM before it looks for the other BOMs.
guard_stripped_bytes(input) ==
    IF has_utf16_or_utf32_bom(strip_utf8_bom(input).stripped)
    THEN [err |-> "Utf16Or32Bom", bytes |-> <<>>]
    ELSE IF has_nul_in_first_8k(strip_utf8_bom(input).stripped)
    THEN [err |-> "NulByte", bytes |-> <<>>]
    ELSE [err |-> "", bytes |-> strip_utf8_bom(input).stripped]

guard_input_bytes(input) ==
    IF has_utf16_or_utf32_bom(input)
    THEN [err |-> "Utf16Or32Bom", bytes |-> <<>>]
    ELSE IF has_nul_in_first_8k(strip_utf8_bom(input).stripped)
    THEN [err |-> "NulByte", bytes |-> <<>>]
    ELSE [err |-> "", bytes |-> strip_utf8_bom(input).stripped]

\* map_encoding_issue of the orchestrator, with the label of the issue in
\* the JSON detail.
map_encoding_issue(bytes, issue) ==
    IF issue = "Utf16Or32Bom"
    THEN IF StartsWith(bytes, UTF32_BE_BOM) \/ StartsWith(bytes, UTF32_LE_BOM)
         THEN "utf32"
         ELSE "utf16"
    ELSE "nul_byte"

\* ------------------------------------- GuardSpec: the guard on input bytes

\* What an input starts with: nothing, each BOM, a UTF-8 BOM in front of a
\* UTF-16 one, and beginnings of BOMs that are none.
GuardHeads ==
    {<<>>, UTF8_BOM, UTF16_BE_BOM, UTF16_LE_BOM, UTF32_BE_BOM, UTF32_LE_BOM,
     UTF8_BOM \o UTF16_LE_BOM, UTF8_BOM \o UTF8_BOM, <<239, 187>>, <<255>>,
     <<0, 0, 254>>}

RECURSIVE GuardBodies(_)
GuardBodies(n) ==
    IF n = 0 THEN {<<>>}
    ELSE GuardBodies(n - 1)
         \cup {Append(s, b) : s \in GuardBodies(n - 1), b \in {0, 97}}

GuardInit ==
    /\ pc = "read"
    /\ build = "release"
    /\ args = [valid |-> TRUE, threshold |-> One, tolerance |-> 0,
               has_key |-> FALSE, key |-> <<>>, delimiter |-> 0]
    /\ \E head \in GuardHeads, body \in GuardBodies(NUL_SCAN_LIMIT + 1) :
        corpus = [old |-> [lines |-> <<head \o body>>, fault |-> ""],
                  new |-> NoInput]
    /\ old = NoFile
    /\ new = NoFile
    /\ cells = <<>>
    /\ accumulator = NewAccumulator
    /\ top = <<>>
    /\ decision = NoChange
    /\ outcome = NoOutcome
    /\ exit = -1

\* The guarded bytes go on to parsing, or the run refuses with E_ENCODING.
Guard(bytes, guarded) ==
    IF guarded.err # ""
    THEN /\ pc' = "refused"
         /\ outcome' = ParseFailure("E_ENCODING",
                <<"Old", map_encoding_issue(bytes, guarded.err)>>).refusal
         /\ old' = old
    ELSE /\ pc' = "guarded"
         /\ outcome' = outcome
         /\ old' = [NoFile EXCEPT !.records = <<guarded.bytes>>]

GuardInput ==
    /\ pc = "read"
    /\ Guard(corpus.old.lines[1], guard_input_bytes(corpus.old.lines[1]))
    /\ UNCHANGED <<build, args, corpus, new, cells, accumulator, top,
                   decision, exit>>

GuardNext == GuardInput

GuardSpec == GuardInit /\ [][GuardNext]_vars

InputBytes == corpus.old.lines[1]

BeginsWith(bom) == Len(InputBytes) >= Len(bom) /\ \A i \in 1..Len(bom) : InputBytes[i] = bom[i]

\* Bytes in front of the scan: those of a UTF-8 BOM, or none.
Skipped == IF BeginsWith(<<239, 187, 191>>) THEN 3 ELSE 0

NulWithinLimit ==
    \E i \in 1..Len(InputBytes) :
        InputBytes[i] = 0 /\ i > Skipped /\ i - Skipped <= NUL_SCAN_LIMIT

GuardRefuses(issue) ==
    /\ pc = "refused"
    /\ outcome.code = "E_ENCODING"
    /\ outcome.detail = <<"Old", issue>>

\* C19: the input guard refuses a UTF-32 BOM as utf32, else a UTF-16 BOM as
\* utf16; else it strips exactly the three bytes of a leading UTF-8 BOM and
\* refuses as nul_byte a NUL among the first NUL_SCAN_LIMIT remaining bytes,
\* and accepts the remaining bytes when the only NULs lie behind the limit.
C19_GuardOrder ==
    pc # "read" =>
        IF BeginsWith(<<0, 0, 254, 255>>) \/ BeginsWith(<<255, 254, 0, 0>>)
        THEN GuardRefuses("utf32")
        ELSE IF BeginsWith(<<254, 255>>) \/ BeginsWith(<<255, 254>>)
        THEN GuardRefuses("utf16")
        ELSE IF NulWithinLimit
        THEN GuardRefuses("nul_byte")
        ELSE /\ pc = "guarded"
             /\ old.records = <<SubSeq(InputBytes, Skipped + 1, Len(InputBytes))>>

\* Accepted: a UTF-8 BOM stripped and a NUL right behind the limit.
C19_Witness ==
    /\ pc = "guarded"
    /\ Skipped = 3
    /\ Len(InputBytes) = 3 + NUL_SCAN_LIMIT + 1
    /\ InputBytes[3 + NUL_SCAN_LIMIT + 1] = 0
    /\ Len(old.records[1]) = NUL_SCAN_LIMIT + 1

\* ------------------------- DialectSpec: auto-detection on two-line files

\* A letter and the five candidate delimiters.
DialectBytes == {97, 44, 9, 59, 124, 94}

RECURSIVE DialectLines(_)
DialectLines(n) ==
    IF n = 0 THEN {<<>>}
    ELSE DialectLines(n - 1)
         \cup {Append(s, b) : s \in DialectLines(n - 1), b \in DialectBytes}

DialectInit ==
    /\ pc = "read"
    /\ build = "release"
    /\ args = [valid |-> TRUE, threshold |-> One, tolerance |-> 0,
               has_key |-> FALSE, key |-> <<>>, delimiter |-> 0]
    /\ \E header \in DialectLines(MaxLineLen), data \in DialectLines(MaxLineLen) :
        corpus = [old |-> [lines |-> <<header, data>>, fault |-> ""],
                  new |-> NoInput]
    /\ old = NoFile
    /\ new = NoFile
    /\ cells = <<>>
    /\ accumulator = NewAccumulator
    /\ top = <<>>
    /\ decision = NoChange
    /\ outcome = NoOutcome
    /\ exit = -1

\* The parsed file, or the refusal of parse_csv.
Detected(result) ==
    IF result.refusal.kind # "NONE"
    THEN /\ pc' = "refused"
         /\ outcome' = result.refusal
         /\ old' = old
    ELSE /\ pc' = "parsed"
         /\ outcome' = outcome
         /\ old' = result.parsed

\* parse_csv without --delimiter: auto_detect, then the read loop.
DetectDialect ==
    /\ pc = "read"
    /\ \E orders \in ModeOrders(corpus.old.lines) :
        Detected(parse_csv(corpus.old, "Old", args.delimiter, orders))
    /\ UNCHANGED <<build, args, corpus, new, cells, accumulator, top,
                   decision, exit>>

DialectNext == DetectDialect

DialectSpec == DialectInit /\ [][DialectNext]_vars

\* Comma, tab, semicolon, pipe, caret.
Preference == <<44, 9, 59, 124, 94>>

\* What a candidate delimiter samples from the file.
CandidateOf(d) ==
    LET lines == skip_leading_blank_lines(corpus.old.lines)
    IN  sample_with_escape(lines, d,
            CHOOSE o \in IterOrders(DOMAIN SampleHistogram(lines, d)) : TRUE)

\* The samples of the five candidates, in preference order.
Samples == [i \in 1..Len(Preference) |-> CandidateOf(Preference[i])]

\* The candidates of the samples c that no other one outscores.
BestOf(c) ==
    {i \in DOMAIN c : \A j \in DOMAIN c : ~ScoreLess(c[i].score, c[j].score)}

BestDelimiters == {Preference[i] : i \in BestOf(Samples)}

\* The first of a set of candidates in the preference order.
Preferred(best) == CHOOSE i \in best : \A j \in best : i <= j

DialectRefused(issue, tied) ==
    /\ pc = "refused"
    /\ outcome.code = "E_DIALECT"
    /\ outcome.detail = <<"Old", issue, tied>>

\* The chosen candidate goes on, unless its header has one field.
ChosenAs(chosen) ==
    IF chosen.header_fields = 1
    THEN DialectRefused("SingleColumn", <<chosen.delimiter>>)
    ELSE /\ outcome.code # "E_DIALECT"
         /\ pc = "parsed" => old.delimiter = chosen.delimiter

\* The end of the detection on the samples c, of which best score highest.
Resolved(c, best) ==
    IF \E i, j \in best : c[i].records # c[j].records
    THEN DialectRefused("Ambiguous",
             SelectSeq(Preference, LAMBDA d : \E i \in best : d = Preference[i]))
    ELSE ChosenAs(c[Preferred(best)])

ResolvedFrom(c) == Resolved(c, BestOf(c))

\* C20: of the candidates with the greatest score a single one is chosen;
\* several are resolved by the preference order when their samples are
\* identical, and refused as ambiguous, listed in preference order, when
\* not; a chosen candidate with a one-field header is refused as
\* single_column.
C20_TieResolution ==
    (pc # "read" /\ skip_leading_blank_lines(corpus.old.lines) # <<>>) =>
        ResolvedFrom(Samples)

\* An ambiguous tie of semicolon and caret, listed in that order.
C20_Witness ==
    /\ DialectRefused("Ambiguous", <<59, 94>>)
    /\ BestDelimiters = {59, 94}

\* ----------------------- RecordSpec: the read loop of parse_csv on records

\* Data records as written: full, short, blank in one field and in three,
\* wide with blank extras,
\* wide with a value behind the header width.
WrittenRecords ==
    {<<B_0, B_1>>, <<B_1>>, <<(<<32>>)>>, <<(<<32>>), <<9>>, B_empty>>,
     <<B_0, B_1, <<32>>, <<9>>>>, <<B_0, B_1, B_x>>,
     <<B_empty, B_empty, <<32>>, B_x>>}

\* Headers as written: two names, or two blank fields.
WrittenHeaders == {<<B_a, B_b>>, <<B_empty, <<32>>>>}

RecordInit ==
    /\ pc = "read"
    /\ build = "release"
    /\ \E delimiter \in {0, 44} :
        args = [valid |-> TRUE, threshold |-> One, tolerance |-> 0,
                has_key |-> FALSE, key |-> <<>>, delimiter |-> delimiter]
    /\ \E header \in WrittenHeaders, n \in 0..MaxRecordLines :
        \E data \in [1..n -> WrittenRecords] :
            corpus = [old |-> [lines |-> <<WriteLine(header)>>
                                   \o [i \in 1..n |-> WriteLine(data[i])],
                               fault |-> ""],
                      new |-> NoInput]
    /\ old = NoFile
    /\ new = NoFile
    /\ cells = <<>>
    /\ accumulator = NewAccumulator
    /\ top = <<>>
    /\ decision = NoChange
    /\ outcome = NoOutcome
    /\ exit = -1

\* parse_csv with or without --delimiter; only auto_detect builds the
\* histograms whose iteration order matters.
ReadFile ==
    /\ pc = "read"
    /\ \E orders \in (IF args.delimiter = 0 THEN ModeOrders(corpus.old.lines)
                       ELSE {<<>>}) :
        Detected(parse_csv(corpus.old, "Old", args.delimiter, orders))
    /\ UNCHANGED <<build, args, corpus, new, cells, accumulator, top,
                   decision, exit>>

RecordNext == ReadFile

RecordSpec == RecordInit /\ [][RecordNext]_vars

\* The fields of line i of the file as written.
WrittenFields(i) == Split(corpus.old.lines[i], 44)

BlankField(field) == \A k \in 1..Len(field) : field[k] \in {32, 9}

\* Line i is a data line that holds something.
HoldsData(i) == i > 1 /\ \E k \in 1..Len(WrittenFields(i)) : ~BlankField(WrittenFields(i)[k])

\* The record number of data line i: the lines up to it that hold
\* something, the header line not among them.
RecordNumber(i) == Cardinality({j \in 2..i : HoldsData(j)})

\* Line i has a field behind the header width that holds something.
ExtraValue(i) ==
    \E k \in (Len(WrittenFields(1)) + 1)..Len(WrittenFields(i)) :
        ~BlankField(WrittenFields(i)[k])

\* Field k of line i, empty where the line has none.
WrittenField(i, k) ==
    IF k <= Len(WrittenFields(i)) THEN WrittenFields(i)[k] ELSE <<>>

RecordsRead ==
    /\ pc = "parsed"
    /\ Len(old.headers) = Len(WrittenFields(1))
    /\ Len(old.records) = RecordNumber(Len(corpus.old.lines))
    /\ \A i \in 2..Len(corpus.old.lines) :
        HoldsData(i) =>
            old.records[RecordNumber(i)]
                = [k \in 1..Len(old.headers) |-> WrittenField(i, k)]

ExtraFieldsRefused(i) ==
    /\ pc = "refused"
    /\ outcome.code = "E_HEADERS"
    /\ outcome.detail = <<"Old", "ExtraFields", RecordNumber(i)>>

\* C21: data records are numbered from 1 over the non-blank records behind
\* the header; a record is refused as extra_fields with its number exactly
\* when a field behind the header width is not blank (the first such record
\* of the file), and otherwise every non-blank record is kept under its
\* number.
C21_RecordNumbers ==
    (pc # "read" /\ outcome.code # "E_DIALECT") =>
        IF \E i \in 2..Len(corpus.old.lines) : ExtraValue(i)
        THEN \E i \in 2..Len(corpus.old.lines) :
                /\ ExtraValue(i)
                /\ \A j \in 2..(i - 1) : ~ExtraValue(j)
                /\ ExtraFieldsRefused(i)
        ELSE RecordsRead

\* A blank header, then a blank record, a wide record with blank extras and
\* a record with a value behind the header width: refused with number 2.
C21_Witness ==
    /\ Len(corpus.old.lines) = 4
    /\ WrittenFields(1) = <<B_empty, <<32>>>>
    /\ ~HoldsData(2)
    /\ HoldsData(3) /\ Len(WrittenFields(3)) > 2 /\ ~ExtraValue(3)
    /\ ExtraValue(4)
    /\ ExtraFieldsRefused(4)
    /\ outcome.detail[3] = 2

\* --------------------------------------------------------- cli/delimiter.rs

ToAsciiLower(b) == IF b >= 65 /\ b <= 90 THEN b + 32 ELSE b

\* str::to_ascii_lowercase; str::to_lowercase agrees with it on the texts
\* used here (no cased letter outside ASCII).
to_ascii_lowercase(text) == [i \in 1..Len(text) |-> ToAsciiLower(text[i])]

\* The named delimiters of parse_delimiter_arg; 0 for a text that is none.
NamedDelimiter(lower) ==
    CASE lower = <<99, 111, 109, 109, 97>> -> 44
      [] lower = <<116, 97, 98>> -> 9
      [] lower = <<115, 101, 109, 105, 99, 111, 108, 111, 110>> -> 59
      [] lower = <<112, 105, 112, 101>> -> 124
      [] lower = <<99, 97, 114, 101, 116>> -> 94
      [] OTHER -> 0

RECURSIVE HexValue(_)
\* The value of a string of hex digits.
HexValue(digits) ==
    IF digits = <<>> THEN 0
    ELSE 16 * HexValue(SubSeq(digits, 1, Len(digits) - 1))
         + from_hex_digit(digits[Len(digits)])

\* u8::from_str_radix(text, 16): an optional '+', then at least one hex
\* digit, the value at most 255.
from_str_radix(text) ==
    LET digits == IF text # <<>> /\ text[1] = 43 THEN Tail(text) ELSE text
    IN  IF digits = <<>> \/ \E i \in 1..Len(digits) : from_hex_digit(digits[i]) = -1
        THEN [ok |-> FALSE, byte |-> 0]
        ELSE IF HexValue(digits) > 255 THEN [ok |-> FALSE, byte |-> 0]
        ELSE [ok |-> TRUE, byte |-> HexValue(digits)]

validate_delimiter_byte(byte) ==
    IF ~(byte >= 1 /\ byte <= 127) THEN [err |-> "InvalidByte", byte |-> 0]
    ELSE IF byte = 34 \/ byte = 13 \/ byte = 10
    THEN [err |-> "InvalidByte", byte |-> 0]
    ELSE [err |-> "", byte |-> byte]

\* The chars of a UTF-8 text: its bytes that are no continuation bytes.
CharCount(text) == Cardinality({i \in 1..Len(text) : ~IsContinuation(text[i])})

\* parse_delimiter_arg behind the named delimiters and the 0x form.
ParseLiteralDelimiter(raw) ==
    IF CharCount(raw) # 1 THEN [err |-> "InvalidValue", byte |-> 0]
    ELSE IF raw[1] > 127 THEN [err |-> "NonAscii", byte |-> 0]
    ELSE validate_delimiter_byte(raw[1])

\* parse_delimiter_arg behind the named delimiters.
ParseHexOrLiteral(raw, lower) ==
    IF StartsWith(lower, <<48, 120>>)
    THEN IF Len(lower) # 4 \/ ~from_str_radix(SubSeq(lower, 3, 4)).ok
         THEN [err |-> "InvalidHex", byte |-> 0]
         ELSE validate_delimiter_byte(from_str_radix(SubSeq(lower, 3, 4)).byte)
    ELSE ParseLiteralDelimiter(raw)

parse_delimiter_arg(raw) ==
    IF raw = <<>> THEN [err |-> "Empty", byte |-> 0]
    ELSE IF NamedDelimiter(to_ascii_lowercase(raw)) # 0
    THEN [err |-> "", byte |-> NamedDelimiter(to_ascii_lowercase(raw))]
    ELSE ParseHexOrLiteral(raw, to_ascii_lowercase(raw))

\* ------------------------------------------------------------ bin/server.rs

\* The first five arms of parse_delimiter: a name or the byte itself.
ServerNamed(lower) ==
    IF NamedDelimiter(lower) # 0 THEN NamedDelimiter(lower)
    ELSE IF lower \in {<<44>>, <<9>>, <<59>>, <<124>>, <<94>>} THEN lower[1]
    ELSE 0

\* parse_delimiter of the server: Some(byte), or None.
parse_delimiter(s) ==
    IF ServerNamed(to_ascii_lowercase(s)) # 0
    THEN [some |-> TRUE, byte |-> ServerNamed(to_ascii_lowercase(s))]
    ELSE IF StartsWith(s, <<48, 120>>) \/ StartsWith(s, <<48, 88>>)
    THEN [some |-> from_str_radix(SubSeq(s, 3, Len(s))).ok,
          byte |-> from_str_radix(SubSeq(s, 3, Len(s))).byte]
    ELSE IF Len(s) = 1 THEN [some |-> TRUE, byte |-> s[1]]
    ELSE [some |-> FALSE, byte |-> 0]

\* ---------------------------------------------------------------- csv/sep.rs

is_valid_delimiter(delimiter) ==
    /\ delimiter >= 1
    /\ delimiter <= 127
    /\ delimiter # 34
    /\ delimiter # 13
    /\ delimiter # 10

\* parse_sep_directive: the delimiter, or 0 for None.
parse_sep_directive(line) ==
    IF Len(line) # 5 \/ SubSeq(line, 1, 4) # <<115, 101, 112, 61>> THEN 0
    ELSE IF is_valid_delimiter(line[5]) THEN line[5]
    ELSE 0

strip_trailing_cr(line) ==
    IF line # <<>> /\ line[Len(line)] = 13
    THEN SubSeq(line, 1, Len(line) - 1) ELSE line

\* scan_first_non_blank_line: the delimiter of a directive on the first
\* line that is not blank, or 0.
scan_first_non_blank_line(lines) ==
    IF \A i \in 1..Len(lines) : is_ascii_blank_slice(strip_trailing_cr(lines[i]))
    THEN 0
    ELSE parse_sep_directive(strip_trailing_cr(
             lines[CHOOSE i \in 1..Len(lines) :
                 /\ ~is_ascii_blank_slice(strip_trailing_cr(lines[i]))
                 /\ \A j \in 1..(i - 1) :
                        is_ascii_blank_slice(strip_trailing_cr(lines[j]))]))

\* ------------- DelimiterSpec: where the delimiter of a parse comes from

\* parse_csv once a directive or a forced delimiter decides: the record of
\* the directive line is skipped, and blank one-field records after it.
ParseSkipping(lines, file_side, delimiter, skip_sep) ==
    IF skip_sep /\ FromHeader(ReadRecords(lines, delimiter)) # <<>>
    THEN ParseRecords(file_side, delimiter,
             FromHeader(Tail(FromHeader(ReadRecords(lines, delimiter)))))
    ELSE ParseDelimited(lines, file_side, delimiter)

\* parse_csv of a file without quotes: the forced delimiter, else the
\* delimiter of the directive, else auto_detect.
ParseChoosing(file, file_side, forced, sep, orders) ==
    IF forced.some
    THEN ParseSkipping(file.lines, file_side, forced.byte, sep # 0)
    ELSE IF sep # 0 THEN ParseSkipping(file.lines, file_side, sep, TRUE)
    ELSE parse_csv(file, file_side, 0, orders)

\* Texts of a --delimiter flag or a delimiter field: names, 0x forms in
\* and out of range, single bytes, and texts that are none of these.
DelimiterTexts ==
    {<<99, 111, 109, 109, 97>>, <<84, 97, 66>>, <<112, 105, 112, 101, 115>>,
     <<48, 120, 51, 98>>, <<48, 88, 50, 67>>, <<48, 120, 50, 50>>,
     <<48, 120, 48, 48>>, <<48, 120, 56, 48>>, <<48, 120, 48, 100>>,
     <<48, 120, 55, 102>>, <<48, 120, 43, 102>>, <<48, 120, 50>>,
     <<48, 120, 122, 122>>, <<48, 120, 49, 48, 48>>, <<48, 120>>,
     <<59>>, <<124>>, <<34>>, <<13>>, <<0>>, <<127>>, <<120>>,
     <<97, 98>>, <<195, 169>>, <<>>}

Line_ab(d) == <<97, d, 98>>

Line_01(d) == <<48, d, 49>>

\* Files: comma and semicolon files, files opening with a directive (for
\* their own delimiter, for another one, behind a blank line), and lines
\* that are no directive (a byte out of range, a blank in front, six bytes).
DelimitedFiles ==
    {<<Line_ab(44), Line_01(44)>>,
     <<Line_ab(59), Line_01(59)>>,
     <<<<115, 101, 112, 61, 59>>, Line_ab(59), Line_01(59)>>,
     <<<<115, 101, 112, 61, 61>>, Line_ab(44), Line_01(44)>>,
     <<<<32>>, <<115, 101, 112, 61, 124>>, <<32>>, Line_ab(124)>>,
     <<<<115, 101, 112, 61, 128>>, Line_ab(44)>>,
     <<<<32, 115, 101, 112, 61, 59>>, Line_ab(59)>>,
     <<<<115, 101, 112, 61, 59, 59>>, Line_ab(59)>>}

DelimiterInit ==
    /\ pc = "start"
    /\ build = "release"
    /\ \E entry \in {"cli", "http"}, given \in BOOLEAN, raw \in DelimiterTexts :
        /\ ~given => raw = <<>>
        /\ args = [valid |-> TRUE, threshold |-> One, tolerance |-> 0,
                   has_key |-> FALSE, key |-> <<>>, delimiter |-> 0,
                   entry |-> entry, given |-> given, raw |-> raw,
                   has_delimiter |-> FALSE]
    /\ \E lines \in DelimitedFiles :
        corpus = [old |-> [lines |-> lines, fault |-> ""], new |-> NoInput]
    /\ old = NoFile
    /\ new = NoFile
    /\ cells = <<>>
    /\ accumulator = NewAccumulator
    /\ top = <<>>
    /\ decision = NoChange
    /\ outcome = NoOutcome
    /\ exit = -1

\* Args::parse of the command line: the value parser of --delimiter; a
\* rejected value ends the run with the usage error.
ParseFlag ==
    /\ pc = "start"
    /\ args.entry = "cli"
    /\ IF ~args.given THEN pc' = "args" /\ args' = args /\ exit' = exit
       ELSE IF parse_delimiter_arg(args.raw).err # ""
       THEN pc' = "usage" /\ args' = [args EXCEPT !.valid = FALSE] /\ exit' = 2
       ELSE /\ pc' = "args"
            /\ args' = [args EXCEPT !.has_delimiter = TRUE,
                                    !.delimiter = parse_delimiter_arg(args.raw).byte]
            /\ exit' = exit
    /\ UNCHANGED <<build, corpus, old, new, cells, accumulator, top,
                   decision, outcome>>

\* The delimiter field of the multipart form of compare, and Args::new.
ParseField ==
    /\ pc = "start"
    /\ args.entry = "http"
    /\ pc' = "args"
    /\ IF args.given /\ parse_delimiter(args.raw).some
       THEN args' = [args EXCEPT !.has_delimiter = TRUE,
                                 !.delimiter = parse_delimiter(args.raw).byte]
       ELSE args' = args
    /\ UNCHANGED <<build, corpus, old, new, cells, accumulator, top,
                   decision, outcome, exit>>

\* parse_csv of the old file with the delimiter option of the arguments.
ParseFile ==
    /\ pc = "args"
    /\ \E orders \in ModeOrders(corpus.old.lines) :
        Detected(ParseChoosing(corpus.old, "Old",
                     [some |-> args.has_delimiter, byte |-> args.delimiter],
                     scan_first_non_blank_line(corpus.old.lines), orders))
    /\ UNCHANGED <<build, args, corpus, new, cells, accumulator, top,
                   decision, exit>>

DelimiterNext == ParseFlag \/ ParseField \/ ParseFile

DelimiterSpec == DelimiterInit /\ [][DelimiterNext]_vars

\* C22: every file the pipeline has parsed was parsed with a delimiter byte
\* in 0x01-0x7F that is not the double quote, CR or LF, however the
\* delimiter was obtained.
C22_DelimiterValid ==
    pc = "parsed" =>
        /\ old.delimiter \in 1..127
        /\ old.delimiter \notin {34, 13, 10}

\* The same of the runs started from the command line.
DelimiterValidFromCommandLine ==
    (pc = "parsed" /\ args.entry = "cli") =>
        /\ old.delimiter \in 1..127
        /\ old.delimiter \notin {34, 13, 10}

\* ------------------------------------ KeySpec: parsing the --key argument

\* What a --key text starts with: nothing, the two prefixes, and texts that
\* only resemble them.
KeyPrefixes == {<<>>, U8Prefix, HexPrefix, <<72, 69, 88, 58>>, <<117, 56>>}

\* Bytes behind the prefix: hex digits in both cases, a letter that is
\* none, and the colon.
KeyBodyBytes == {54, 57, 65, 102, 103, 58}

RECURSIVE KeyBodies(_)
KeyBodies(n) ==
    IF n = 0 THEN {<<>>}
    ELSE KeyBodies(n - 1)
         \cup {Append(s, b) : s \in KeyBodies(n - 1), b \in KeyBodyBytes}

KeyInit ==
    /\ pc = "args"
    /\ build = "release"
    /\ \E prefix \in KeyPrefixes, body \in KeyBodies(MaxKeyLen) :
        args = [valid |-> TRUE, threshold |-> One, tolerance |-> 0,
                has_key |-> TRUE, key |-> prefix \o body, delimiter |-> 0]
    /\ corpus = [old |-> NoInput, new |-> NoInput]
    /\ old = NoFile
    /\ new = NoFile
    /\ cells = <<>>
    /\ accumulator = NewAccumulator
    /\ top = <<>>
    /\ decision = NoChange
    /\ outcome = NoOutcome
    /\ exit = -1

\* orchestrator::run on args.key: the key bytes it goes on with (kept as
\* the headers of old), or the error it returns.
ParseKey ==
    /\ pc = "args"
    /\ IF KeyBytes.err # ""
       THEN pc' = "error" /\ old' = old
       ELSE pc' = "keyed" /\ old' = [NoFile EXCEPT !.headers = <<KeyBytes.bytes>>]
    /\ UNCHANGED <<build, args, corpus, new, cells, accumulator, top,
                   decision, outcome, exit>>

KeyNext == ParseKey

KeySpec == KeyInit /\ [][KeyNext]_vars

\* The text behind "hex:" of a --key text that has this prefix.
HexPart == SubSeq(args.key, 5, Len(args.key))

IsHexDigit(b) == (b >= 48 /\ b <= 57) \/ (b >= 65 /\ b <= 70) \/ (b >= 97 /\ b <= 102)

BadHex ==
    /\ Len(args.key) >= 4
    /\ SubSeq(args.key, 1, 4) = <<104, 101, 120, 58>>
    /\ (Len(HexPart) % 2 = 1 \/ \E i \in 1..Len(HexPart) : ~IsHexDigit(HexPart[i]))

\* C23: parsing a --key identifier never yields an empty key, and a hex:
\* identifier with an odd number of digits or a digit that is none is
\* rejected.
C23_KeyNeverEmpty ==
    /\ pc = "keyed" => old.headers[1] # <<>>
    /\ (pc # "args" /\ (args.key = <<>> \/ BadHex)) => pc = "error"

\* The part of it that the code keeps: the empty text, hex: without digits
\* and ill-formed hex are rejected.
KeyRejections ==
    (pc # "args" /\ (args.key = <<>> \/ args.key = <<104, 101, 120, 58>> \/ BadHex))
        => pc = "error"

\* ------------------------------------------------ properties: the top-K heap

\* What the diff loop pushed: for every observed cell with a contribution
\* above 0, the contribution and the tie_break counter of the observation.
Pushes ==
    {[contribution |-> apply(args.tolerance, cells[i].old, cells[i].new).contribution,
      tie_break |-> i - 1] :
        i \in {j \in 1..Len(cells) :
                  apply(args.tolerance, cells[j].old, cells[j].new).contribution > 0}}

\* The retained entries, as contribution and tie_break.
Retained ==
    {[contribution |-> e.contribution, tie_break |-> e.tie_break] :
        e \in accumulator.top}

\* Entry a outranks entry b: the larger contribution, or the same one
\* observed earlier.
Outranks(a, b) ==
    \/ a.contribution > b.contribution
    \/ a.contribution = b.contribution /\ a.tie_break < b.tie_break

\* C24: after any sequence of pushes the top-K holds min(K, pushes)
\* entries, all of them pushed, and every retained entry outranks every
\* ejected one: a larger contribution, or the same with the lower counter.
C24_TopKRetainsLargest ==
    (pc = "diff") =>
        /\ Cardinality(accumulator.top)
               = (IF Cardinality(Pushes) < MAX_CONTRIBUTORS
                  THEN Cardinality(Pushes) ELSE MAX_CONTRIBUTORS)
        /\ Retained \subseteq Pushes
        /\ Cardinality(Retained) = Cardinality(accumulator.top)
        /\ \A kept \in Retained, ejected \in Pushes \ Retained :
               Outranks(kept, ejected)

\* More pushes than the capacity, and an ejected entry with the same
\* contribution as a retained one.
C24_Witness ==
    /\ pc = "diff"
    /\ Cardinality(Pushes) > MAX_CONTRIBUTORS
    /\ \E kept \in Retained, ejected \in Pushes \ Retained :
           kept.contribution = ejected.contribution

\* ------------------------------------- properties: the running totals

\* |delta| of a cell as the diff computes it: |new - old| in f64.
AbsDelta(cell) == FAbs(FSub(cell.new, cell.old))

AboveTolerance(cell) == AbsDelta(cell) > args.tolerance

RECURSIVE SumInOrder(_)
\* The f64 sum of the |delta| of a sequence of cells, added in order.
SumInOrder(observed) ==
    IF observed = <<>> THEN 0
    ELSE FAdd(SumInOrder(SubSeq(observed, 1, Len(observed) - 1)),
              AbsDelta(observed[Len(observed)]))

\* The greatest |delta| of the observed cells; 0 when there is none.
GreatestAbsDelta ==
    IF cells = <<>> THEN 0
    ELSE AbsDelta(cells[CHOOSE i \in 1..Len(cells) :
                      \A j \in 1..Len(cells) : AbsDelta(cells[j]) <= AbsDelta(cells[i])])

\* C25: after any sequence of observed cells, total_change is the sum of
\* |delta| over exactly the cells with |delta| > tolerance, no cell within
\* the tolerance is in the heap, and max_abs_delta is the greatest |delta|
\* of all observed cells.
C25_RunningTotals ==
    (pc = "diff") =>
        /\ accumulator.total_change = SumInOrder(SelectSeq(cells, AboveTolerance))
        /\ \A i \in 1..Len(cells) :
               ~AboveTolerance(cells[i]) =>
                   \A e \in accumulator.top : e.id # cells[i].id
        /\ accumulator.max_abs_delta = GreatestAbsDelta

\* Observed: two cells above a tolerance greater than 0 and, after them, a
\* cell whose |delta| equals the tolerance.
C25_Witness ==
    /\ pc = "diff"
    /\ args.tolerance > 0
    /\ Len(cells) >= 3
    /\ AboveTolerance(cells[1])
    /\ AboveTolerance(cells[2])
    /\ AbsDelta(cells[3]) = args.tolerance
    /\ accumulator.total_change > accumulator.max_abs_delta

\* ------------------------------------- specification: contributor order
\* sort_contributors applied to the retained contributors of a heap, for
\* cells of both row-id kinds (row indices and keys) in two columns.

OrderRowIds == {RowIndex(2), RowIndex(10), Key(<<49, 48>>), Key(<<50>>)}

OrderIds == {CellId(r, c) : r \in OrderRowIds, c \in {B_a, B_b}}

OrderContributions == {1, 3}

\* The heaps of up to MAX_CONTRIBUTORS distinct cells, tie_break by push.
OrderHeaps ==
    UNION {{{Contributor(ids[i], cs[i], cs[i], i - 1) : i \in 1..n} :
                ids \in {q \in [1..n -> OrderIds] :
                            \A i, j \in 1..n : i # j => q[i] # q[j]},
                cs \in [1..n -> OrderContributions]} :
           n \in 0..MAX_CONTRIBUTORS}

OrderInit ==
    /\ pc = "sort"
    /\ build = "release"
    /\ args = [threshold |-> One, tolerance |-> 0]
    /\ corpus = [old |-> NoInput, new |-> NoInput]
    /\ old = NoFile
    /\ new = NoFile
    /\ cells = <<>>
    /\ \E heap \in OrderHeaps :
           accumulator = [NewAccumulator EXCEPT !.top = heap,
                                                !.next_tie = Cardinality(heap)]
    /\ top = <<>>
    /\ decision = NoChange
    /\ outcome = NoOutcome
    /\ exit = -1

\* run_diff after the loop: into_vec, then sort_contributors.
SortTop ==
    /\ pc = "sort"
    /\ \E v \in IntoVec(accumulator.top) : top' = sort_contributors(v)
    /\ pc' = "sorted"
    /\ UNCHANGED <<build, args, corpus, old, new, cells, accumulator, decision, outcome, exit>>

OrderNext == SortTop

OrderSpec == OrderInit /\ [][OrderNext]_vars

\* ----------------------------------- properties: the contributor order

\* Row ids: indices in numeric order, keys in byte order, index before key.
RowBefore(l, r) ==
    \/ l.kind = "row_index" /\ r.kind = "row_index" /\ l.index < r.index
    \/ l.kind = "key" /\ r.kind = "key" /\ BytesLess(l.key, r.key)
    \/ l.kind = "row_index" /\ r.kind = "key"

\* Contribution descending, then row id, then column-name bytes.
Ranked(a, b) ==
    \/ a.contribution > b.contribution
    \/ /\ a.contribution = b.contribution
       /\ \/ RowBefore(a.id.row_id, b.id.row_id)
          \/ a.id.row_id = b.id.row_id /\ BytesLess(a.id.column, b.id.column)

\* C26: the final contributor list is ordered by contribution descending,
\* ties by cell id ascending (row id, then column bytes); the order is
\* total on distinct cells, and the list is the same for every order in
\* which the heap hands back its entries.
C26_ContributorOrder ==
    (pc = "sorted") =>
        /\ Len(top) = Cardinality(accumulator.top)
        /\ \A i, j \in 1..Len(top) : i < j => Ranked(top[i], top[j])
        /\ \A a, b \in accumulator.top :
               a.id # b.id => (Ranked(a, b) # Ranked(b, a))
        /\ \A v \in IntoVec(accumulator.top) : sort_contributors(v) = top

\* Sorted: three contributors of one contribution, a row index among keys,
\* two of them cells of one row.
C26_Witness ==
    /\ pc = "sorted"
    /\ Len(top) = 3
    /\ top[1].contribution = top[3].contribution
    /\ top[1].id.row_id.kind = "row_index"
    /\ top[2].id.row_id.kind = "key"
    /\ top[2].id.row_id = top[3].id.row_id

\* ------------------------------------------------------- csv/parser.rs

RECURSIVE ScanQuotes(_, _, _, _, _)
\* The loop of validate_quotes from byte i (1-based) on.
ScanQuotes(input, delimiter, escape, i, in_quotes) ==
    IF i > Len(input)
    THEN IF in_quotes THEN "unterminated quote" ELSE "ok"
    ELSE IF in_quotes
    THEN IF /\ escape = "Backslash"
            /\ input[i] = 92
            /\ i + 1 <= Len(input)
            /\ input[i + 1] = 34
         THEN ScanQuotes(input, delimiter, escape, i + 2, TRUE)
         ELSE IF input[i] = 34
         THEN IF i + 1 <= Len(input) /\ input[i + 1] = 34
              THEN ScanQuotes(input, delimiter, escape, i + 2, TRUE)
              ELSE IF /\ i + 1 <= Len(input)
                      /\ input[i + 1] # delimiter
                      /\ input[i + 1] # 10
                      /\ input[i + 1] # 13
              THEN "invalid quote"
              ELSE ScanQuotes(input, delimiter, escape, i + 1, FALSE)
         ELSE ScanQuotes(input, delimiter, escape, i + 1, TRUE)
    ELSE ScanQuotes(input, delimiter, escape, i + 1, input[i] = 34)

validate_quotes(input, delimiter, escape) ==
    ScanQuotes(input, delimiter, escape, 1, FALSE)

\* try_parse: validate_quotes, then a read of every byte record; the
\* flexible byte-record reader reports no error on bytes held in memory.
try_parse(input, delimiter, escape) ==
    [ok |-> validate_quotes(input, delimiter, escape) = "ok",
     escape_mode |-> escape,
     message |-> validate_quotes(input, delimiter, escape)]

\* A detection that reports the error of the attempt made last.
detect_reporting_last_error(input, delimiter) ==
    IF try_parse(input, delimiter, "None").ok
    THEN [ok |-> TRUE, mode |-> "None", error |-> <<>>, attempts |-> <<"None">>]
    ELSE IF try_parse(input, delimiter, "Backslash").ok
    THEN [ok |-> TRUE, mode |-> "Backslash", error |-> <<>>,
          attempts |-> <<"None", "Backslash">>]
    ELSE [ok |-> FALSE, mode |-> "None",
          error |-> <<try_parse(input, delimiter, "Backslash")>>,
          attempts |-> <<"None", "Backslash">>]

\* detect_escape_mode on a reader that seeks and reads without error;
\* attempts lists the calls of try_parse in order.
detect_escape_mode(input, delimiter) ==
    IF try_parse(input, delimiter, "None").ok
    THEN [ok |-> TRUE, mode |-> "None", error |-> <<>>, attempts |-> <<"None">>]
    ELSE IF try_parse(input, delimiter, "Backslash").ok
    THEN [ok |-> TRUE, mode |-> "Backslash", error |-> <<>>,
          attempts |-> <<"None", "Backslash">>]
    ELSE [ok |-> FALSE, mode |-> "None",
          error |-> <<try_parse(input, delimiter, "None")>>,
          attempts |-> <<"None", "Backslash">>]

\* ------------------------------------- specification: escape detection
\* detect_escape_mode on every input of up to MaxQuotedLen bytes drawn from
\* the quote, the backslash, two delimiters, a letter and LF.

QuotedBytes == {34, 92, 44, 59, 97, 10}

QuotedInputs == UNION {[1..n -> QuotedBytes] : n \in 0..MaxQuotedLen}

EscapeInit ==
    /\ pc = "detect"
    /\ build = "release"
    /\ \E input \in QuotedInputs, delimiter \in {44, 59} :
           args = [input |-> input, delimiter |-> delimiter]
    /\ corpus = [old |-> NoInput, new |-> NoInput]
    /\ old = NoFile
    /\ new = NoFile
    /\ cells = <<>>
    /\ accumulator = NewAccumulator
    /\ top = <<>>
    /\ decision = NoChange
    /\ outcome = NoOutcome
    /\ exit = -1

DetectEscape ==
    /\ pc = "detect"
    /\ outcome' = detect_escape_mode(args.input, args.delimiter)
    /\ pc' = "detected"
    /\ UNCHANGED <<build, args, corpus, old, new, cells, accumulator, top, decision, exit>>

EscapeNext == DetectEscape

EscapeSpec == EscapeInit /\ [][EscapeNext]_vars

\* ----------------------------------- properties: escape detection

\* Whether byte i of the input, met inside quotes, escapes the quote after it.
EscapesNext(input, escape, i) ==
    /\ i < Len(input)
    /\ input[i + 1] = 34
    /\ input[i] = 34 \/ (escape = "Backslash" /\ input[i] = 92)

\* Where the first i bytes of the input leave a reader: outside quotes,
\* inside quotes, or inside quotes before an escaped quote.
QuoteState(input, escape) ==
    LET f[i \in 0..Len(input)] ==
            IF i = 0 THEN "out"
            ELSE IF f[i - 1] = "out"
            THEN (IF input[i] = 34 THEN "in" ELSE "out")
            ELSE IF f[i - 1] = "escaping" THEN "in"
            ELSE IF EscapesNext(input, escape, i) THEN "escaping"
            ELSE IF input[i] = 34 THEN "out"
            ELSE "in"
    IN  f

EndsInsideQuotes(input, state) == state[Len(input)] # "out"

BadClosingQuote(input, delimiter, state) ==
    \E i \in 1..(Len(input) - 1) :
        /\ state[i - 1] = "in"
        /\ state[i] = "out"
        /\ input[i + 1] \notin {delimiter, 13, 10}

\* What the claim says of one attempt, given the quote states of the input.
AttemptFails(input, delimiter, escape, state) ==
    (EndsInsideQuotes(input, state) \/ BadClosingQuote(input, delimiter, state))
        => ~try_parse(input, delimiter, escape).ok

\* C27: detection tries None first and Backslash only if None fails, once;
\* it returns None whenever the None attempt succeeds, Backslash only when
\* None fails and Backslash succeeds, and otherwise the error of the None
\* attempt; an attempt fails whenever the input ends inside quotes or a
\* closing quote is followed by a byte other than the delimiter, CR or LF.
C27_EscapeDetection ==
    (pc = "detected") =>
        /\ outcome.attempts[1] = "None"
        /\ Len(outcome.attempts) =
               (IF try_parse(args.input, args.delimiter, "None").ok THEN 1 ELSE 2)
        /\ Len(outcome.attempts) = 2 => outcome.attempts[2] = "Backslash"
        /\ try_parse(args.input, args.delimiter, "None").ok
               => outcome.ok /\ outcome.mode = "None"
        /\ (outcome.ok /\ outcome.mode = "Backslash")
               => /\ ~try_parse(args.input, args.delimiter, "None").ok
                  /\ try_parse(args.input, args.delimiter, "Backslash").ok
        /\ (/\ ~try_parse(args.input, args.delimiter, "None").ok
            /\ ~try_parse(args.input, args.delimiter, "Backslash").ok)
               => /\ ~outcome.ok
                  /\ outcome.error = <<try_parse(args.input, args.delimiter, "None")>>
        /\ AttemptFails(args.input, args.delimiter, "None",
                        QuoteState(args.input, "None"))
        /\ AttemptFails(args.input, args.delimiter, "Backslash",
                        QuoteState(args.input, "Backslash"))

\* Detected: both attempts fail, for different reasons.
C27_Witness ==
    /\ pc = "detected"
    /\ ~outcome.ok
    /\ try_parse(args.input, args.delimiter, "None").message = "invalid quote"
    /\ try_parse(args.input, args.delimiter, "Backslash").message = "unterminated quote"

\* ---------------------- specification: typing, the diff pass, the details
\* run_row_order and run_diff on two files with the columns v and x: a cell
\* of v is 0, 1, text or missing on either side, a row of x changes from 0
\* to 1 or is missing on both sides.

PassPairs == {B_0, B_1, B_x, B_empty} \X {B_0, B_1, B_x, B_empty}

PassRows ==
    {<<<<p[1], q[1]>>, <<p[2], q[2]>>>> :
        p \in PassPairs, q \in {<<B_0, B_1>>, <<B_empty, B_empty>>}}

PassInit ==
    /\ pc = "loaded"
    /\ build = "release"
    /\ args = [valid |-> TRUE, threshold |-> One, tolerance |-> 0,
               has_key |-> FALSE, key |-> <<>>, delimiter |-> 0]
    /\ corpus = [old |-> NoInput, new |-> NoInput]
    /\ \E n \in 0..MaxPassRows :
        \E rows \in [1..n -> PassRows] :
            /\ old = [delimiter |-> 44, headers |-> <<B_v, B_x>>,
                      records |-> [i \in 1..n |-> rows[i][1]]]
            /\ new = [delimiter |-> 44, headers |-> <<B_v, B_x>>,
                      records |-> [i \in 1..n |-> rows[i][2]]]
    /\ cells = <<>>
    /\ accumulator = NewAccumulator
    /\ top = <<>>
    /\ decision = NoChange
    /\ outcome = NoOutcome
    /\ exit = -1

PassNext == Compare

PassSpec == PassInit /\ [][PassNext]_vars

\* ------------------------------- properties: typing and the two passes

\* What detect_numeric_columns returns for the aligned rows of the run.
ColumnTyping ==
    detect_numeric_columns(
        intersect_headers(old.headers, new.headers, <<>>).common,
        run_row_order(old, new).rows)

BothMissing(r, column) ==
    /\ is_missing_token(Field(old.records[r], column.old_index))
    /\ is_missing_token(Field(new.records[r], column.new_index))

BothParse(r, column) ==
    /\ parse_numeric(Field(old.records[r], column.old_index)).some
    /\ parse_numeric(Field(new.records[r], column.new_index)).some

\* The cells of the numeric columns that are not missing on both sides.
ComparableCells(numeric) ==
    {CellId(RowIndex(p[1]), numeric[p[2]].name) :
        p \in {q \in (1..Len(old.records)) \X (1..Len(numeric)) :
                  ~BothMissing(q[1], numeric[q[2]])}}

\* The typing holds of the run: typed columns, compared cells, details.
TwoPasses(typing) ==
    /\ \A c \in 1..Len(typing.numeric), r \in 1..Len(old.records) :
           BothMissing(r, typing.numeric[c]) \/ BothParse(r, typing.numeric[c])
    /\ {cells[i].id : i \in 1..Len(cells)} = ComparableCells(typing.numeric)
    /\ Len(cells) = Cardinality(ComparableCells(typing.numeric))
    /\ outcome.kind = "REAL_CHANGE" =>
           /\ Len(outcome.contributors) = decision.cutoff
           /\ \A i \in 1..decision.cutoff :
                  outcome.contributors[i].id = top[i].id

\* C28: when column typing succeeds, in every column it returns as numeric
\* the old and new cells of every aligned row are both missing or both
\* numbers; the diff pass compares every cell of those columns that is not
\* missing on both sides, and the second pass finds every listed
\* contributor.
C28_TypedColumnsCompareFully ==
    (pc = "rendered" /\ ColumnTyping.err.kind = "") => TwoPasses(ColumnTyping)

\* Rendered: both columns typed numeric, v missing on both sides in one
\* row, and two contributors listed.
C28_Witness ==
    /\ pc = "rendered"
    /\ outcome.kind = "REAL_CHANGE"
    /\ Len(ColumnTyping.numeric) = 2
    /\ \E r \in 1..Len(old.records) : BothMissing(r, ColumnTyping.numeric[1])
    /\ Len(outcome.contributors) >= 2

\* -------------------------------- properties: few changed cells

\* At most MAX_CONTRIBUTORS observed cells changed, and something changed.
FewCellsChanged ==
    /\ pc = "decided"
    /\ Cardinality({i \in 1..Len(cells) : AboveTolerance(cells[i])})
           <= MAX_CONTRIBUTORS
    /\ accumulator.total_change > 0

\* C29: E_DIFFUSE occurs only when more than MAX_CONTRIBUTORS cells have
\* |delta| > tolerance: when at most that many cells changed and
\* total_change > 0, the coverage decision is REAL CHANGE for every
\* threshold in (0, 1].
C29_FewChangesExplainable ==
    FewCellsChanged => decision.kind = "Explainable"

\* The same of the runs whose total_change is finite and whose threshold
\* is below 1.
FewChangesExplainableBelowOne ==
    (/\ FewCellsChanged
     /\ accumulator.total_change < Inf
     /\ args.threshold < One) => decision.kind = "Explainable"

\* ------------------------------- specification: the suggested --key value
\* A column name is encoded as the --key value of a rerun command
\* (RefusalKind::default_next) and that value parsed as --key is parsed.
\* Names of up to MaxNameLen bytes over u, 8, :, a control byte, a byte
\* that is no UTF-8 and a two-byte character.

NameBytes == {117, 56, 58, 1, 255, 194, 162}

ColumnNames == UNION {[1..n -> NameBytes] : n \in 0..MaxNameLen}

NameInit ==
    /\ pc = "named"
    /\ build = "release"
    /\ args = [valid |-> TRUE, threshold |-> One, tolerance |-> 0,
               has_key |-> FALSE, key |-> <<>>, delimiter |-> 0]
    /\ corpus = [old |-> NoInput, new |-> NoInput]
    /\ \E name \in ColumnNames : old = [NoFile EXCEPT !.headers = <<name>>]
    /\ new = NoFile
    /\ cells = <<>>
    /\ accumulator = NewAccumulator
    /\ top = <<>>
    /\ decision = NoChange
    /\ outcome = NoOutcome
    /\ exit = -1

\* default_next: the --key value of the rerun command.
SuggestKey ==
    /\ pc = "named"
    /\ args' = [args EXCEPT !.has_key = TRUE,
                            !.key = encode_identifier_json(old.headers[1])]
    /\ pc' = "suggested"
    /\ UNCHANGED <<build, corpus, old, new, cells, accumulator, top, decision, outcome, exit>>

\* run: parse_key_identifier on the suggested value.
ParseSuggested ==
    /\ pc = "suggested"
    /\ new' = [NoFile EXCEPT !.headers = <<KeyBytes.bytes>>]
    /\ pc' = IF KeyBytes.err = "" THEN "keyed" ELSE "error"
    /\ UNCHANGED <<build, args, corpus, old, cells, accumulator, top, decision, outcome, exit>>

NameNext == SuggestKey \/ ParseSuggested

NameSpec == NameInit /\ [][NameNext]_vars

\* ------------------------------- properties: the suggested --key value

\* C30: for every non-empty byte string b, parse_key_identifier of
\* encode_identifier_json(b) succeeds and returns exactly b.
C30_KeyRoundTrip ==
    (pc \in {"keyed", "error"} /\ old.headers[1] # <<>>) =>
        /\ pc = "keyed"
        /\ new.headers = old.headers

\* Parsed back: a name of several bytes that was written in the hex form.
C30_Witness ==
    /\ pc = "keyed"
    /\ Len(old.headers[1]) >= 2
    /\ new.headers = old.headers
    /\ StartsWith(args.key, HexPrefix)

====
